---- MODULE Spec2Model ----
(***************************************************************************)
(* Model of the scraping job: the data processor (average, recency        *)
(* selection, deduplication, normalisation), the ScrapingJob orchestrator  *)
(* with its p-limit queue and the CSV post store, and the shared browser   *)
(* manager with the page-holding web strategy.                             *)
(***************************************************************************)
EXTENDS Integers, Sequences, FiniteSets, TLC

VARIABLES
  \* the data processor applied to drawn inputs
  input,          \* [existing, fresh, count]: the arguments
  applied,        \* which function has been applied: "none" before
  output          \* [toAppend, toUpdate, average, recent, postsAfter]

procVars == <<input, applied, output>>

VARIABLES
  \* the files of the CSV store
  influencersFile,  \* rows [username, platform, averageViews]
  postsFile,        \* rows [username, platform, postLink, postedDate, comments, likes]
  \* ScrapingJob
  concurrency,      \* config.scraping.maxConcurrentRequests
  pc,               \* where run() stands
  influencers,      \* what readInfluencers returned
  existingRead,     \* what readExistingPosts returned
  queue,            \* p-limit: the identities not yet started
  active,           \* p-limit: the identities whose processInfluencer is in flight
  fetched,          \* per identity, how its fetch ended
  results,          \* per identity, the result of processInfluencer
  writes,           \* the writer calls of this run, in order
  summary,          \* the summary of the last finished run
  runs              \* finished runs

storeVars == <<influencersFile, postsFile>>

jobVars ==
  <<concurrency, pc, influencers, existingRead, queue, active, fetched,
    results, writes, summary, runs>>

VARIABLES
  \* BrowserManager (0 stands for null)
  browser,          \* this.browser: a browser id
  isLaunching,      \* this.isLaunching
  launchPromise,    \* this.launchPromise: a launch id
  launchState,      \* per launch: "pending", "resolved" or "rejected"
  connected,        \* the browsers that are connected
  handled,          \* the browsers whose 'disconnected' handler is registered
  \* WebScraperStrategy, one instance shared by the operations of a platform
  page,             \* this.page: a page id
  pages,            \* per page: [state, browser, madeBy, usedBy, closedBy]
  ops               \* per fetch operation: [pc, launch, waited, got, made, inFetch]

browserVars ==
  <<browser, isLaunching, launchPromise, launchState, connected, handled,
    page, pages, ops>>

VARIABLES
  \* a transport strategy's makeRequest
  request,          \* [strategy, retryAttempts, attempt, pc]
  responses,        \* what each attempt of the call got, in order
  delays,           \* the backoff waits of the call, in order
  \* a scraper's getRecentPosts on its strategy
  fetch             \* [state, posts, condition, strategyThrew, result]

transportVars == <<request, responses, delays, fetch>>

VARIABLES
  \* ScraperStrategyFactory and the construction of the job
  created,          \* a call of ScraperStrategyFactory.create: [platform, method, result]
  construction      \* new ScrapingJob(): [tiktokMethod, instagramMethod, state,
                    \*   tiktokStrategy, instagramStrategy, fetches]

factoryVars == <<created, construction>>

strategyVars == <<transportVars, factoryVars>>

VARIABLES
  \* the process of index.js
  process,          \* [runOnce, runOnStartup, main, handlers, job, browserUp,
                    \*   state, exit]
  inflight          \* per identity of the running job: "inflight", "done" or "cut"

hostVars == <<process, inflight>>

VARIABLES
  \* one WebScraperStrategy called by one caller, call after call
  held              \* [page, pages, calls, connected]: this.page (0 for null),
                    \*   the pages created, the calls made, the browser's state

VARIABLES
  \* a strategy's handleError applied to an error
  classified        \* [strategy, error, kind]

VARIABLES
  \* processInfluencer applied to an identity and the existing posts
  matched           \* [influencer, existingPosts, result]

VARIABLES
  \* InstagramWebStrategy.getRecentPosts, one operation, next to another
  \* operation on the same strategy object
  igFetch           \* [class, stage, thisPage, on, closed, other, trace, posts,
                    \*   outcome]

VARIABLES
  \* scrollToLoadPosts on a page
  scroll            \* [targetCount, count, height, previousHeight,
                    \*   scrollAttempts, currentCount, heights, pc]

VARIABLES
  \* InstagramWebStrategy.enrichPostStatsViaModal
  enrich            \* [posts, configured, i, pc, view, how, enriched,
                    \*   openedFrom, threw]

VARIABLES
  \* ScrapingStrategy.extractNumber and BaseScraper.extractNumber
  extracted         \* [pc, value, result]

extVars == <<hostVars, held, classified, matched, igFetch, scroll, enrich, extracted>>

\* What the actions of one group leave alone among these.
exceptHost == <<held, classified, matched, igFetch, scroll, enrich, extracted>>

exceptHeld == <<hostVars, classified, matched, igFetch, scroll, enrich, extracted>>

exceptClassified == <<hostVars, held, matched, igFetch, scroll, enrich, extracted>>

exceptMatched == <<hostVars, held, classified, igFetch, scroll, enrich, extracted>>

exceptIgFetch == <<hostVars, held, classified, matched, scroll, enrich, extracted>>

exceptScroll == <<hostVars, held, classified, matched, igFetch, enrich, extracted>>

exceptEnrich == <<hostVars, held, classified, matched, igFetch, scroll, extracted>>

exceptExtracted == <<hostVars, held, classified, matched, igFetch, scroll, enrich>>

vars == <<procVars, storeVars, jobVars, browserVars, strategyVars, extVars>>

(***************************************************************************)
(* JavaScript values.  A value is a record [t, n, s]: t is the type tag,   *)
(* n the number (tag "num") or the instant a date string denotes (tag      *)
(* "date"), s the characters of a string (tag "str").                      *)
(***************************************************************************)
Undef == [t |-> "undef", n |-> 0, s |-> <<>>]

Null == [t |-> "null", n |-> 0, s |-> <<>>]

Num(k) == [t |-> "num", n |-> k, s |-> <<>>]

Str(chars) == [t |-> "str", n |-> 0, s |-> chars]

DateStr(k) == [t |-> "date", n |-> k, s |-> <<>>]

NaNValue == [t |-> "nan", n |-> 0, s |-> <<>>]

\* object.field: undefined when the object has no such property.
Get(object, field) == IF field \in DOMAIN object THEN object[field] ELSE Undef

\* The result of a numeric conversion: NaN or an integer.
NaN == [nan |-> TRUE, n |-> 0]

Fin(k) == [nan |-> FALSE, n |-> k]

Digits == <<"0", "1", "2", "3", "4", "5", "6", "7", "8", "9">>

DigitValue(c) == (CHOOSE i \in 1..10 : Digits[i] = c) - 1

IsDigit(c) == \E i \in 1..10 : Digits[i] = c

RECURSIVE TrimStart(_)
TrimStart(s) ==
  IF s = <<>> THEN <<>>
  ELSE IF Head(s) = " " THEN TrimStart(Tail(s)) ELSE s

RECURSIVE TrimEnd(_)
TrimEnd(s) ==
  IF s = <<>> THEN <<>>
  ELSE IF s[Len(s)] = " " THEN TrimEnd(SubSeq(s, 1, Len(s) - 1)) ELSE s

\* String.prototype.trim
Trim(s) == TrimEnd(TrimStart(s))

RECURSIVE DigitsToNumber(_)
DigitsToNumber(s) ==
  IF s = <<>> THEN 0
  ELSE 10 * DigitsToNumber(SubSeq(s, 1, Len(s) - 1)) + DigitValue(s[Len(s)])

\* Number(string): blank is 0, an optional sign and digits is that integer,
\* anything else is NaN.
StringToNumber(s) ==
  LET u == Trim(s)
      body == IF u # <<>> /\ Head(u) \in {"-", "+"} THEN Tail(u) ELSE u
  IN  IF u = <<>> THEN Fin(0)
      ELSE IF body # <<>> /\ \A i \in 1..Len(body) : IsDigit(body[i])
           THEN IF Head(u) = "-" THEN Fin(0 - DigitsToNumber(body))
                ELSE Fin(DigitsToNumber(body))
           ELSE NaN

\* Number(value)
ToNumber(v) ==
  CASE v.t = "undef" -> NaN
    [] v.t = "null" -> Fin(0)
    [] v.t = "num" -> Fin(v.n)
    [] v.t = "str" -> StringToNumber(v.s)
    [] OTHER -> NaN

\* A numeric conversion's result as a value.
NumberValue(r) == IF r.nan THEN NaNValue ELSE Num(r.n)

\* Truthiness, as `||` and `!` test it.
Truthy(v) ==
  CASE v.t = "undef" -> FALSE
    [] v.t = "null" -> FALSE
    [] v.t = "num" -> v.n # 0
    [] v.t = "str" -> v.s # <<>>
    [] OTHER -> TRUE

\* a || b
Or(a, b) == IF Truthy(a) THEN a ELSE b

\* new Date(value).getTime(): a date string gives its instant, a number is
\* taken as the instant, null is the epoch, anything else is an invalid date.
DateTime(v) ==
  CASE v.t = "date" -> Fin(v.n)
    [] v.t = "num" -> Fin(v.n)
    [] v.t = "null" -> Fin(0)
    [] OTHER -> NaN

\* Math.round of the quotient of a non-negative total by a positive count
\* (halves round up).
RoundDiv(total, count) == (2 * total + count) \div (2 * count)

(***************************************************************************)
(* dataProcessor                                                           *)
(***************************************************************************)
RECURSIVE SumViews(_)
SumViews(posts) ==
  IF posts = <<>> THEN 0
  ELSE ToNumber(Get(Head(posts), "views")).n + SumViews(Tail(posts))

ValidViews(post) ==
  LET views == ToNumber(Get(post, "views"))
  IN  ~views.nan /\ views.n >= 0

calculateAverageViews(posts) ==
  IF posts = <<>> THEN Null
  ELSE LET validPosts == SelectSeq(posts, ValidViews)
       IN  IF validPosts = <<>> THEN Null
           ELSE Num(RoundDiv(SumViews(validPosts), Len(validPosts)))

\* The comparator with its operands exchanged: dateA - dateB.
CompareDatesAscending(a, b) ==
  LET dateA == DateTime(Get(a, "postedDate"))
      dateB == DateTime(Get(b, "postedDate"))
  IN  IF dateA.nan \/ dateB.nan THEN 0 ELSE dateA.n - dateB.n

\* The comparator of the sort: dateB - dateA; a NaN result counts as +0.
CompareDates(a, b) ==
  LET dateA == DateTime(Get(a, "postedDate"))
      dateB == DateTime(Get(b, "postedDate"))
  IN  IF dateA.nan \/ dateB.nan THEN 0 ELSE dateB.n - dateA.n

\* Array.prototype.sort is stable: x goes after every element it does not
\* strictly precede.
RECURSIVE InsertSorted(_, _)
InsertSorted(sorted, x) ==
  IF sorted = <<>> THEN <<x>>
  ELSE LET last == sorted[Len(sorted)]
       IN  IF CompareDates(last, x) > 0
           THEN InsertSorted(SubSeq(sorted, 1, Len(sorted) - 1), x) \o <<last>>
           ELSE sorted \o <<x>>

RECURSIVE SortByDate(_)
SortByDate(posts) ==
  IF posts = <<>> THEN <<>>
  ELSE InsertSorted(SortByDate(SubSeq(posts, 1, Len(posts) - 1)), posts[Len(posts)])

Min(a, b) == IF a < b THEN a ELSE b

\* sortedPosts.slice(0, count) of the sorted copy [...posts]; `posts` is the
\* caller's array after the call.
filterLast10Posts(posts, count) ==
  [returned |-> IF posts = <<>> THEN <<>>
                ELSE SubSeq(SortByDate(posts), 1, Min(count, Len(posts))),
   posts |-> posts]

\* post.postLink?.toString().trim(); links are strings or absent.
LinkKey(post) ==
  LET postLink == Get(post, "postLink")
  IN  IF postLink.t \in {"undef", "null"} THEN Undef
      ELSE Str(Trim(postLink.s))

SeqRange(s) == {s[i] : i \in 1..Len(s)}

\* deduplicatePosts without the skip of posts that have no link.
deduplicatePostsKeepsAll(existingPosts, newPosts) ==
  LET existingPostLinks == {LinkKey(p) : p \in SeqRange(existingPosts)}
      IsOld(post) == LinkKey(post) \in existingPostLinks
  IN  [toAppend |-> SelectSeq(newPosts, LAMBDA post : ~IsOld(post)),
       toUpdate |-> SelectSeq(newPosts, IsOld)]

deduplicatePosts(existingPosts, newPosts) ==
  LET existingPostLinks == {LinkKey(p) : p \in SeqRange(existingPosts)}
      Usable(post) == Truthy(LinkKey(post))
      IsOld(post) == Usable(post) /\ LinkKey(post) \in existingPostLinks
      IsNew(post) == Usable(post) /\ LinkKey(post) \notin existingPostLinks
  IN  [toAppend |-> SelectSeq(newPosts, IsNew),
       toUpdate |-> SelectSeq(newPosts, IsOld)]

\* value !== undefined ? Number(value) : fallback
NumberOr(value, fallback) ==
  IF value.t # "undef" THEN NumberValue(ToNumber(value)) ELSE fallback

\* `now` is new Date().toISOString() at the time of the call.
normalizePost(post, username, platform, now) ==
  [username |-> username,
   platform |-> IF platform # "" THEN platform
                ELSE IF "platform" \in DOMAIN post THEN post.platform
                ELSE "",
   postLink |-> Or(Or(Get(post, "postLink"), Get(post, "url")), Str(<<>>)),
   postedDate |-> Or(Or(Get(post, "postedDate"), Get(post, "date")), now),
   comments |-> NumberOr(Get(post, "comments"),
                         NumberOr(Get(post, "share"), Num(0))),
   likes |-> NumberOr(Get(post, "likes"), Num(0))]

RECURSIVE MapNormalize(_, _, _, _)
MapNormalize(posts, username, platform, now) ==
  IF posts = <<>> THEN <<>>
  ELSE <<normalizePost(Head(posts), username, platform, now)>>
       \o MapNormalize(Tail(posts), username, platform, now)

\* A fetched post: link, date and views as the strategies deliver them.
RawPost(link, date, views) ==
  [postLink |-> link, postedDate |-> date, views |-> views]

NoOutput ==
  [toAppend |-> <<>>, toUpdate |-> <<>>, average |-> Undef, recent |-> <<>>,
   postsAfter |-> <<>>]

(***************************************************************************)
(* CSV files: what a written value reads back as.                          *)
(***************************************************************************)
Blank == Str(<<>>)

\* csv-stringify: undefined and null are written as the empty field.
Cell(v) == IF v.t \in {"undef", "null"} THEN Blank ELSE v

\* csv-parse with trim: a text field comes back without surrounding blanks.
ParseCell(v) == IF v.t = "str" THEN Str(Trim(v.s)) ELSE v

\* record.a || record.b of a parsed row: a blank field is falsy.
FieldOrUndef(v) == IF v = Blank THEN Undef ELSE v

\* parseFloat(field || 0)
ParseFloatOrZero(v) ==
  IF v = Blank THEN Num(0) ELSE NumberValue(ToNumber(v))

\* CsvReader.readInfluencers
readInfluencers(file) ==
  [i \in 1..Len(file) |->
     [username |-> file[i].username, platform |-> file[i].platform]]

\* CsvReader.readExistingPosts
readExistingPosts(file) ==
  [i \in 1..Len(file) |->
     [username |-> file[i].username,
      platform |-> file[i].platform,
      postLink |-> FieldOrUndef(ParseCell(file[i].postLink)),
      postedDate |-> FieldOrUndef(ParseCell(file[i].postedDate)),
      comments |-> ParseFloatOrZero(ParseCell(file[i].comments)),
      likes |-> ParseFloatOrZero(ParseCell(file[i].likes))]]

\* The row csv-stringify writes for an object under the posts columns
\* username, platform, postLink, postedDate, comments, likes.
PostRow(post) ==
  [username |-> post.username,
   platform |-> post.platform,
   postLink |-> Cell(Get(post, "postLink")),
   postedDate |-> Cell(Get(post, "postedDate")),
   comments |-> Cell(Get(post, "comments")),
   likes |-> Cell(Get(post, "likes"))]

\* A row of the posts file as csv-parse returns it: the fields are keyed by
\* the header names, so link and date are under "post link" and "posted date".
ParsedPostRow(row) ==
  [username |-> row.username,
   platform |-> row.platform,
   post_link |-> ParseCell(row.postLink),
   posted_date |-> ParseCell(row.postedDate),
   comments |-> ParseCell(row.comments),
   likes |-> ParseCell(row.likes)]

\* CsvWriter.appendPosts: the parsed rows and the new posts are written
\* under the same columns.
appendPosts(file, posts) ==
  IF posts = <<>> THEN file
  ELSE [i \in 1..Len(file) |-> PostRow(ParsedPostRow(file[i]))]
       \o [i \in 1..Len(posts) |-> PostRow(posts[i])]

\* The last post of `posts` whose postLink is `link` (Map.set overwrites).
RECURSIVE LastWithLink(_, _)
LastWithLink(posts, link) ==
  IF posts = <<>> THEN Undef
  ELSE IF posts[Len(posts)].postLink = link THEN posts[Len(posts)]
       ELSE LastWithLink(SubSeq(posts, 1, Len(posts) - 1), link)

\* CsvWriter.updateExistingPosts
updateExistingPosts(file, posts) ==
  IF posts = <<>> THEN file
  ELSE [i \in 1..Len(file) |->
         LET post == ParsedPostRow(file[i])
             key == Or(Get(post, "postLink"), post.post_link)
             update == LastWithLink(posts, key)
         IN  IF update # Undef
             THEN PostRow(
                    [username |-> IF update.username # "" THEN update.username
                                  ELSE post.username,
                     platform |-> IF update.platform # "" THEN update.platform
                                  ELSE post.platform,
                     postLink |-> update.postLink,
                     postedDate |-> Or(Or(update.postedDate, Get(post, "postedDate")),
                                       post.posted_date),
                     comments |-> IF Get(update, "comments") # Undef
                                  THEN update.comments
                                  ELSE post.comments,
                     likes |-> IF Get(update, "likes") # Undef
                               THEN update.likes
                               ELSE post.likes])
             ELSE PostRow(
                    [username |-> post.username,
                     platform |-> post.platform,
                     postLink |-> Or(Get(post, "postLink"), post.post_link),
                     postedDate |-> Or(Get(post, "postedDate"), post.posted_date),
                     comments |-> post.comments,
                     likes |-> post.likes])]

\* CsvWriter.updateAverageViews: a row of the influencers file is keyed by
\* the header names, so its average is under "average views"; the written
\* column is averageViews.
updateAverageViews(file, updates) ==
  LET Key(x) == <<x.username, x.platform>>
      Updated(x) == \E j \in 1..Len(updates) : Key(updates[j]) = Key(x)
      ValueFor(x) ==
        updates[CHOOSE j \in 1..Len(updates) :
                  /\ Key(updates[j]) = Key(x)
                  /\ \A k \in j + 1..Len(updates) : Key(updates[k]) # Key(x)].averageViews
      Known(u) == \E i \in 1..Len(file) : Key(file[i]) = Key(u)
      added == SelectSeq(updates, LAMBDA u : ~Known(u))
  IN  [i \in 1..Len(file) |->
         [username |-> file[i].username,
          platform |-> file[i].platform,
          averageViews |-> IF Updated(file[i]) THEN Cell(ValueFor(file[i]))
                           ELSE Blank]]
      \o [i \in 1..Len(added) |->
            [username |-> added[i].username,
             platform |-> added[i].platform,
             averageViews |-> Cell(added[i].averageViews)]]

(***************************************************************************)
(* ScrapingJob                                                             *)
(***************************************************************************)
MaxInfluencers == 3

MaxConcurrent == 2

MaxRuns == 2

\* platform.toLowerCase().trim() on the spellings of the roster.
LowerTrim(platform) ==
  CASE platform = "TikTok" -> "tiktok"
    [] platform = "Instagram " -> "instagram"
    [] OTHER -> platform

\* getScraperForPlatform: the scraper, or "none" where it throws.
getScraperForPlatform(platform) ==
  LET normalizedPlatform == LowerTrim(platform)
  IN  IF normalizedPlatform \in {"tiktok", "tik tok"} THEN "tiktokScraper"
      ELSE IF normalizedPlatform \in {"instagram", "ig"} THEN "instagramScraper"
      ELSE "none"

\* BaseScraper.getRecentPosts: what the strategy returns, and the empty
\* list when the strategy throws.
getRecentPosts(outcome) == IF outcome.threw THEN <<>> ELSE outcome.posts

\* new Date().toISOString() during a run.
Now == DateStr(9)

\* The count of recent posts processInfluencer averages over.
RecentCount == 10

Failure(influencer, message) ==
  [username |-> influencer.username,
   platform |-> influencer.platform,
   success |-> FALSE,
   error |-> message,
   postsCount |-> 0,
   averageViews |-> Undef,
   toAppend |-> <<>>,
   toUpdate |-> <<>>]

\* processInfluencer from the normalisation on: the result for fetched posts.
Processed(influencer, existingPosts, posts) ==
  LET normalizedPosts ==
        MapNormalize(posts, influencer.username, influencer.platform, Now)
      recentPosts == filterLast10Posts(normalizedPosts, RecentCount).returned
      userExistingPosts ==
        SelectSeq(existingPosts, LAMBDA p : p.username = influencer.username)
      dedup == deduplicatePosts(userExistingPosts, normalizedPosts)
  IN  [username |-> influencer.username,
       platform |-> influencer.platform,
       success |-> TRUE,
       error |-> "",
       postsCount |-> Len(posts),
       averageViews |-> calculateAverageViews(recentPosts),
       toAppend |-> dedup.toAppend,
       toUpdate |-> dedup.toUpdate]

\* processInfluencer without the test for an empty fetch.
processInfluencerEmptySucceeds(influencer, existingPosts, outcome) ==
  IF getScraperForPlatform(influencer.platform) = "none"
  THEN Processed(influencer, existingPosts, <<>>)
  ELSE Processed(influencer, existingPosts, getRecentPosts(outcome))

\* processInfluencer, given how the fetch of the strategy ends.
processInfluencer(influencer, existingPosts, outcome) ==
  IF getScraperForPlatform(influencer.platform) = "none"
  THEN Failure(influencer, "Unsupported platform")
  ELSE LET posts == getRecentPosts(outcome)
       IN  IF posts = <<>> THEN Failure(influencer, "No posts found")
           ELSE Processed(influencer, existingPosts, posts)

Pending == [success |-> FALSE, error |-> "pending"]

NotFetched == [how |-> "none", posts |-> <<>>]

Settled(i) == results[i] # Pending

\* Promise.race in place of Promise.all.
AnySettled == \E i \in 1..Len(influencers) : Settled(i)

\* Promise.all over the limited calls has resolved.
\* The batch counts as done only when every identity has succeeded.
AllSucceeded == \A i \in 1..Len(results) : Settled(i) /\ results[i].success

AllSettled == \A i \in 1..Len(influencers) : Settled(i)

RECURSIVE FlatMap(_, _)
FlatMap(rs, field) ==
  IF rs = <<>> THEN <<>>
  ELSE Head(rs)[field] \o FlatMap(Tail(rs), field)

ResultList == [i \in 1..Len(influencers) |-> results[i]]

successfulResults == SelectSeq(ResultList, LAMBDA r : r.success)

failedResults == SelectSeq(ResultList, LAMBDA r : ~r.success)

averageViewsUpdates ==
  [i \in 1..Len(successfulResults) |->
     [username |-> successfulResults[i].username,
      platform |-> successfulResults[i].platform,
      averageViews |-> successfulResults[i].averageViews]]

allPostsToAppend == FlatMap(successfulResults, "toAppend")

allPostsToUpdate == FlatMap(successfulResults, "toUpdate")

RECURSIVE SumPostsCount(_)
SumPostsCount(rs) ==
  IF rs = <<>> THEN 0 ELSE Head(rs).postsCount + SumPostsCount(Tail(rs))

NoSummary == [totalInfluencers |-> 0]

\* An alert that is also raised when exactly half of the identities failed.
HighFailureRateFromHalf(failedCount, total) == 100 * failedCount >= 50 * total

\* failureRate = (failedResults.length / influencers.length) * 100;
\* failureRate > 50
HighFailureRate(failedCount, total) == 100 * failedCount > 50 * total

BuildSummary ==
  [totalInfluencers |-> Len(influencers),
   successCount |-> Len(successfulResults),
   failureCount |-> Len(failedResults),
   totalPosts |-> SumPostsCount(successfulResults),
   newPosts |-> Len(allPostsToAppend),
   updatedPosts |-> Len(allPostsToUpdate),
   errors |-> [i \in 1..Len(failedResults) |->
                 [username |-> failedResults[i].username,
                  platform |-> failedResults[i].platform,
                  error |-> failedResults[i].error]],
   highFailureRate |-> HighFailureRate(Len(failedResults), Len(influencers))]

\* What a fetch can deliver.
FetchedA == RawPost(Str(<<"A">>), DateStr(3), Num(100))

FetchedB == RawPost(Str(<<"B">>), DateStr(2), Num(151))

FetchedAgainA == RawPost(Str(<<"A">>), DateStr(4), Num(200))

FetchOutcomes ==
  {[threw |-> TRUE, posts |-> <<>>],
   [threw |-> FALSE, posts |-> <<>>],
   [threw |-> FALSE, posts |-> <<FetchedB, FetchedA>>],
   [threw |-> FALSE, posts |-> <<FetchedA, FetchedAgainA>>]}

Roster ==
  <<[username |-> "alice", platform |-> "TikTok"],
    [username |-> "bob", platform |-> "Instagram "],
    [username |-> "carol", platform |-> "youtube"],
    [username |-> "alice", platform |-> "ig"],
    [username |-> "dave", platform |-> "tik tok"]>>

InfluencersFileOf(n) ==
  [i \in 1..n |->
     [username |-> Roster[i].username,
      platform |-> Roster[i].platform,
      averageViews |-> Num(7)]]

InitialPostsFiles ==
  {<<>>,
   <<[username |-> "alice", platform |-> "TikTok",
      postLink |-> Str(<<"A">>), postedDate |-> DateStr(1),
      comments |-> Num(1), likes |-> Num(2)]>>}

IdleProc ==
  /\ input = [existing |-> <<>>, fresh |-> <<>>, count |-> 0]
  /\ applied = "idle"
  /\ output = NoOutput

IdleJob ==
  /\ influencersFile = <<>>
  /\ postsFile = <<>>
  /\ concurrency = 1
  /\ pc = "off"
  /\ influencers = <<>>
  /\ existingRead = <<>>
  /\ queue = <<>>
  /\ active = {}
  /\ fetched = <<>>
  /\ results = <<>>
  /\ writes = <<>>
  /\ summary = NoSummary
  /\ runs = 0

IdleBrowser ==
  /\ browser = 0
  /\ isLaunching = FALSE
  /\ launchPromise = 0
  /\ launchState = <<>>
  /\ connected = {}
  /\ handled = {}
  /\ page = 0
  /\ pages = <<>>
  /\ ops = <<>>

IdleRequest ==
  [strategy |-> "none", retryAttempts |-> 0, attempt |-> 0, pc |-> "off"]

NoFetch ==
  [state |-> "none", posts |-> <<>>, condition |-> "none", strategyThrew |-> FALSE,
   result |-> Pending]

IdleTransport ==
  /\ request = IdleRequest
  /\ responses = <<>>
  /\ delays = <<>>
  /\ fetch = NoFetch

NoCreated == [platform |-> <<>>, method |-> <<>>, result |-> "none"]

IdleFactory ==
  /\ created = NoCreated
  /\ construction = [tiktokMethod |-> <<>>, instagramMethod |-> <<>>, state |-> "off",
                     tiktokStrategy |-> "none", instagramStrategy |-> "none",
                     fetches |-> 0]

IdleStrategy == IdleTransport /\ IdleFactory

IdleHost ==
  /\ process = [runOnce |-> FALSE, runOnStartup |-> FALSE, main |-> "off",
                handlers |-> FALSE, job |-> FALSE, browserUp |-> FALSE,
                state |-> "off", exit |-> "none"]
  /\ inflight = <<>>

IdleHeld == held = [page |-> 0, pages |-> <<>>, calls |-> <<>>, connected |-> FALSE]

NoError == [status |-> 0, message |-> "none"]

IdleClassified ==
  classified = [strategy |-> "none", error |-> NoError, kind |-> "none"]

IdleMatched ==
  matched = [influencer |-> [username |-> "", platform |-> ""],
             existingPosts |-> <<>>, result |-> Pending]

IdleIgFetch ==
  igFetch = [class |-> "none", stage |-> "off", thisPage |-> 0, on |-> 0,
             closed |-> {}, other |-> "off", trace |-> <<>>, posts |-> 0,
             outcome |-> "none"]

IdleScroll ==
  scroll = [targetCount |-> 0, count |-> 0, height |-> 0, previousHeight |-> 0,
            scrollAttempts |-> 0, currentCount |-> 0, heights |-> <<>>,
            pc |-> "off"]

IdleEnrich ==
  enrich = [posts |-> <<>>, configured |-> 0, i |-> 0, pc |-> "off",
            view |-> "grid", how |-> "none", enriched |-> <<>>,
            openedFrom |-> <<>>, threw |-> {}]

(***************************************************************************)
(* Numbers of extractNumber.  A JavaScript number is kept as mant * 10^exp *)
(* with mant free of trailing zeros, so that a product with 10^9 stays     *)
(* small; NaN is a number of its own.                                      *)
(***************************************************************************)
NotANumber == [nan |-> TRUE, mant |-> 0, exp |-> 0]

Zero == [nan |-> FALSE, mant |-> 0, exp |-> 0]

RECURSIVE Normal(_, _)
Normal(mant, exp) ==
  IF mant = 0 THEN Zero
  ELSE IF mant % 10 = 0 THEN Normal(mant \div 10, exp + 1)
  ELSE [nan |-> FALSE, mant |-> mant, exp |-> exp]

\* The value handed to extractNumber: a string, a number, or neither.
NoValue == [type |-> "undefined", text |-> <<>>, number |-> Zero]

IdleExtracted ==
  extracted = [pc |-> "off", value |-> NoValue, result |-> Zero]

\* Every group but `group` is idle.
IdleExcept(group) ==
  /\ IF group = "host" THEN TRUE ELSE IdleHost
  /\ IF group = "held" THEN TRUE ELSE IdleHeld
  /\ IF group = "classified" THEN TRUE ELSE IdleClassified
  /\ IF group = "matched" THEN TRUE ELSE IdleMatched
  /\ IF group = "igFetch" THEN TRUE ELSE IdleIgFetch
  /\ IF group = "scroll" THEN TRUE ELSE IdleScroll
  /\ IF group = "enrich" THEN TRUE ELSE IdleEnrich
  /\ IF group = "extracted" THEN TRUE ELSE IdleExtracted

IdleExt == IdleExcept("none")

coreVars == <<procVars, storeVars, jobVars, browserVars, strategyVars>>

IdleCore == IdleProc /\ IdleJob /\ IdleBrowser /\ IdleStrategy

Init ==
  /\ IdleExt
  /\ IdleProc
  /\ IdleBrowser
  /\ IdleStrategy
  /\ influencersFile \in
       {InfluencersFileOf(n) : n \in 1..Min(MaxInfluencers, Len(Roster))}
  /\ postsFile \in InitialPostsFiles
  /\ concurrency \in 1..MaxConcurrent
  /\ pc = "idle"
  /\ influencers = <<>>
  /\ existingRead = <<>>
  /\ queue = <<>>
  /\ active = {}
  /\ fetched = <<>>
  /\ results = <<>>
  /\ writes = <<>>
  /\ summary = NoSummary
  /\ runs = 0

\* run() up to Promise.all: the files are read and every identity is handed
\* to the limiter, which starts the first `concurrency` of them.
StartRun ==
  /\ pc = "idle"
  /\ runs < MaxRuns
  /\ LET read == readInfluencers(influencersFile)
         n == Len(read)
         started == Min(concurrency, n)
     IN  /\ n > 0
         /\ influencers' = read
         /\ active' = 1..started
         /\ queue' = [i \in 1..n - started |-> started + i]
         /\ fetched' = [i \in 1..n |-> NotFetched]
         /\ results' = [i \in 1..n |-> Pending]
  /\ existingRead' = readExistingPosts(postsFile)
  /\ writes' = <<>>
  /\ pc' = "processing"
  /\ UNCHANGED <<extVars, strategyVars, browserVars, procVars, storeVars, concurrency,
                 summary, runs>>

\* A limiter that lets every queued call start once one has settled.
LimitNextStartsAll(i) ==
  /\ active' = (active \ {i}) \cup SeqRange(queue)
  /\ queue' = <<>>

\* The limiter when a call has settled: the next queued call, if any, starts.
LimitNext(i) ==
  /\ active' = IF queue = <<>> THEN active \ {i}
               ELSE (active \ {i}) \cup {Head(queue)}
  /\ queue' = IF queue = <<>> THEN queue ELSE Tail(queue)

\* processInfluencer of identity i settles.
FinishInfluencer(i) ==
  /\ pc = "processing"
  /\ i \in active
  /\ \E outcome \in FetchOutcomes :
       /\ results' = [results EXCEPT
                        ![i] = processInfluencer(influencers[i], existingRead, outcome)]
       /\ fetched' = [fetched EXCEPT
                        ![i] = IF getScraperForPlatform(influencers[i].platform) = "none"
                               THEN [how |-> "unsupported", posts |-> <<>>]
                               ELSE IF outcome.threw
                                    THEN [how |-> "threw", posts |-> <<>>]
                                    ELSE [how |-> "returned", posts |-> outcome.posts]]
  /\ LimitNext(i)
  /\ UNCHANGED <<extVars, strategyVars, browserVars, procVars, storeVars, concurrency,
                 pc, influencers,
                 existingRead, writes, summary, runs>>

\* run() after Promise.all: the averages are written for the successes.
WriteAverageViews ==
  /\ pc = "processing"
  /\ AllSettled
  /\ IF averageViewsUpdates # <<>>
     THEN /\ influencersFile' = updateAverageViews(influencersFile, averageViewsUpdates)
          /\ writes' = Append(writes, "updateAverageViews")
     ELSE UNCHANGED <<influencersFile, writes>>
  /\ pc' = "append"
  /\ UNCHANGED <<extVars, strategyVars, browserVars, procVars, postsFile, concurrency,
                 influencers, existingRead,
                 queue, active, fetched, results, summary, runs>>

WriteAppendPosts ==
  /\ pc = "append"
  /\ IF allPostsToAppend # <<>>
     THEN /\ postsFile' = appendPosts(postsFile, allPostsToAppend)
          /\ writes' = Append(writes, "appendPosts")
     ELSE UNCHANGED <<postsFile, writes>>
  /\ pc' = "update"
  /\ UNCHANGED <<extVars, strategyVars, browserVars, procVars, influencersFile,
                 concurrency, influencers,
                 existingRead, queue, active, fetched, results, summary, runs>>

WriteUpdatePosts ==
  /\ pc = "update"
  /\ IF allPostsToUpdate # <<>>
     THEN /\ postsFile' = updateExistingPosts(postsFile, allPostsToUpdate)
          /\ writes' = Append(writes, "updateExistingPosts")
     ELSE UNCHANGED <<postsFile, writes>>
  /\ pc' = "summary"
  /\ UNCHANGED <<extVars, strategyVars, browserVars, procVars, influencersFile,
                 concurrency, influencers,
                 existingRead, queue, active, fetched, results, summary, runs>>

\* run() returns the summary.
Summarize ==
  /\ pc = "summary"
  /\ summary' = BuildSummary
  /\ runs' = runs + 1
  /\ pc' = "idle"
  /\ UNCHANGED <<extVars, strategyVars, browserVars, procVars, storeVars, concurrency,
                 influencers, existingRead,
                 queue, active, fetched, results, writes>>

Next ==
  \/ StartRun
  \/ \E i \in 1..MaxInfluencers + 1 : FinishInfluencer(i)
  \/ WriteAverageViews
  \/ WriteAppendPosts
  \/ WriteUpdatePosts
  \/ Summarize

Spec == Init /\ [][Next]_vars

(***************************************************************************)
(* BrowserManager and the web strategy under concurrent fetch operations.  *)
(***************************************************************************)
MaxOps == 2

MaxLaunches == 2

MaxDisconnects == 1

IdleOp ==
  [pc |-> "idle", launch |-> 0, waited |-> FALSE, got |-> 0, made |-> 0,
   inFetch |-> FALSE]

InitBrowser ==
  /\ IdleExt
  /\ IdleProc
  /\ IdleJob
  /\ IdleStrategy
  /\ browser = 0
  /\ isLaunching = FALSE
  /\ launchPromise = 0
  /\ launchState = <<>>
  /\ connected = {}
  /\ handled = {}
  /\ page = 0
  /\ pages = <<>>
  /\ ops \in {[o \in 1..n |-> IdleOp] : n \in 1..MaxOps}

Ops == DOMAIN ops

\* getBrowser without the wait on a launch in flight.
getBrowserNeverWaits ==
  IF browser # 0 /\ browser \in connected THEN "return" ELSE "launch"

\* BrowserManager.getBrowser: return the connected browser, wait on the
\* launch in flight, or launch.
getBrowser ==
  IF browser # 0 /\ browser \in connected THEN "return"
  ELSE IF isLaunching /\ launchPromise # 0 THEN "wait"
  ELSE "launch"

\* createPage up to its first await: getBrowser, and launchBrowser up to
\* its await of puppeteer.launch.
CallGetBrowser(o) ==
  CASE getBrowser = "return" ->
         /\ ops' = [ops EXCEPT ![o].pc = "newPage", ![o].got = browser,
                               ![o].waited = FALSE]
         /\ UNCHANGED <<isLaunching, launchPromise, launchState>>
    [] getBrowser = "wait" ->
         /\ ops' = [ops EXCEPT ![o].pc = "awaitLaunch",
                               ![o].launch = launchPromise,
                               ![o].waited = TRUE,
                               ![o].got = 0]
         /\ UNCHANGED <<isLaunching, launchPromise, launchState>>
    [] getBrowser = "launch" ->
         /\ Len(launchState) < MaxLaunches
         /\ isLaunching' = TRUE
         /\ launchState' = Append(launchState, "pending")
         /\ launchPromise' = Len(launchState) + 1
         /\ ops' = [ops EXCEPT ![o].pc = "launching",
                               ![o].launch = Len(launchState) + 1,
                               ![o].waited = FALSE,
                               ![o].got = 0]

\* An error raised in operation o: BaseScraper.getRecentPosts returns the
\* empty list; inside the strategy's getRecentPosts the finally block runs.
Throws(o) == [ops EXCEPT ![o].pc = IF ops[o].inFetch THEN "cleanup" ELSE "done"]

\* BaseScraper.getRecentPosts calls strategy.initialize().
Initialize(o) ==
  /\ ops[o].pc = "idle"
  /\ CallGetBrowser(o)
  /\ UNCHANGED <<extVars, strategyVars, procVars, storeVars, jobVars, browser, connected, handled,
                 page, pages>>

\* The strategy finds this.page null before navigating and initializes again.
Reinitialize(o) ==
  /\ ops[o].pc = "navigate"
  /\ page = 0
  /\ CallGetBrowser(o)
  /\ UNCHANGED <<extVars, strategyVars, procVars, storeVars, jobVars, browser, connected, handled,
                 page, pages>>

\* puppeteer.launch settles.
LaunchSettles(l) ==
  /\ l \in 1..Len(launchState)
  /\ launchState[l] = "pending"
  /\ \/ /\ launchState' = [launchState EXCEPT ![l] = "resolved"]
        /\ connected' = connected \cup {l}
     \/ /\ launchState' = [launchState EXCEPT ![l] = "rejected"]
        /\ UNCHANGED connected
  /\ UNCHANGED <<extVars, strategyVars, procVars, storeVars, jobVars, browser, isLaunching,
                 launchPromise, handled, page, pages, ops>>

\* launchBrowser after its await.
LauncherResumes(o) ==
  /\ ops[o].pc = "launching"
  /\ launchState[ops[o].launch] # "pending"
  /\ IF launchState[ops[o].launch] = "resolved"
     THEN /\ browser' = ops[o].launch
          /\ handled' = handled \cup {ops[o].launch}
          /\ ops' = [ops EXCEPT ![o].pc = "newPage", ![o].got = ops[o].launch]
     ELSE /\ browser' = 0
          /\ ops' = Throws(o)
          /\ UNCHANGED handled
  /\ isLaunching' = FALSE
  /\ UNCHANGED <<extVars, strategyVars, procVars, storeVars, jobVars, launchPromise, launchState,
                 connected, page, pages>>

\* A caller that waited on the launch promise gets its value or its error.
WaiterResumes(o) ==
  /\ ops[o].pc = "awaitLaunch"
  /\ launchState[ops[o].launch] # "pending"
  /\ ops' = IF launchState[ops[o].launch] = "resolved"
            THEN [ops EXCEPT ![o].pc = "newPage", ![o].got = ops[o].launch]
            ELSE Throws(o)
  /\ UNCHANGED <<extVars, strategyVars, procVars, storeVars, jobVars, browser, isLaunching,
                 launchPromise, launchState, connected, handled, page, pages>>

\* createPage: browser.newPage().
NewPage(o) ==
  /\ ops[o].pc = "newPage"
  /\ IF ops[o].got \in connected
     THEN /\ pages' = Append(pages, [state |-> "open", browser |-> ops[o].got,
                                     madeBy |-> o, usedBy |-> {}, closedBy |-> 0])
          /\ ops' = [ops EXCEPT ![o].pc = "configure", ![o].made = Len(pages) + 1]
     ELSE /\ ops' = Throws(o)
          /\ UNCHANGED pages
  /\ UNCHANGED <<extVars, strategyVars, procVars, storeVars, jobVars, browser, isLaunching,
                 launchPromise, launchState, connected, handled, page>>

\* initialize: this.page = await browserManager.createPage().
AssignPage(o) ==
  /\ ops[o].pc = "configure"
  /\ IF pages[ops[o].made].state = "open"
     THEN /\ page' = ops[o].made
          /\ ops' = [ops EXCEPT ![o].pc = "navigate", ![o].inFetch = TRUE]
     ELSE /\ ops' = Throws(o)
          /\ UNCHANGED page
  /\ UNCHANGED <<extVars, strategyVars, procVars, storeVars, jobVars, browser, isLaunching,
                 launchPromise, launchState, connected, handled, pages>>

\* navigateTo with this.page set: this.page.goto(url).
Navigate(o) ==
  /\ ops[o].pc = "navigate"
  /\ page # 0
  /\ IF pages[page].state = "open"
     THEN /\ pages' = [pages EXCEPT ![page].usedBy = @ \cup {o}]
          /\ ops' = [ops EXCEPT ![o].pc = "extract"]
     ELSE /\ ops' = Throws(o)
          /\ UNCHANGED pages
  /\ UNCHANGED <<extVars, strategyVars, procVars, storeVars, jobVars, browser, isLaunching,
                 launchPromise, launchState, connected, handled, page>>

\* The waits and the extraction on this.page, then the return of the posts;
\* the finally block is next either way.
Extract(o) ==
  /\ ops[o].pc = "extract"
  /\ pages' = IF page # 0 /\ pages[page].state = "open"
              THEN [pages EXCEPT ![page].usedBy = @ \cup {o}]
              ELSE pages
  /\ ops' = [ops EXCEPT ![o].pc = "cleanup"]
  /\ UNCHANGED <<extVars, strategyVars, procVars, storeVars, jobVars, browser, isLaunching,
                 launchPromise, launchState, connected, handled, page>>

\* WebScraperStrategy.cleanup up to its await of this.page.close().
Cleanup(o) ==
  /\ ops[o].pc = "cleanup"
  /\ IF page = 0
     THEN /\ ops' = [ops EXCEPT ![o].pc = "done"]
          /\ UNCHANGED <<page, pages>>
     ELSE IF pages[page].browser \notin connected
          THEN /\ page' = 0
               /\ ops' = [ops EXCEPT ![o].pc = "done"]
               /\ UNCHANGED pages
          ELSE /\ pages' = IF pages[page].state = "open"
                           THEN [pages EXCEPT ![page].state = "closed",
                                              ![page].closedBy = o]
                           ELSE pages
               /\ ops' = [ops EXCEPT ![o].pc = "closing"]
               /\ UNCHANGED page
  /\ UNCHANGED <<extVars, strategyVars, procVars, storeVars, jobVars, browser, isLaunching,
                 launchPromise, launchState, connected, handled>>

\* cleanup after the close: this.page = null.
CleanupDone(o) ==
  /\ ops[o].pc = "closing"
  /\ page' = 0
  /\ ops' = [ops EXCEPT ![o].pc = "done"]
  /\ UNCHANGED <<extVars, strategyVars, procVars, storeVars, jobVars, browser, isLaunching,
                 launchPromise, launchState, connected, handled, pages>>

\* The browsers that were launched and have disconnected.
Disconnected ==
  {l \in 1..Len(launchState) : launchState[l] = "resolved" /\ l \notin connected}

\* The browser disconnects: its pages are gone, and the 'disconnected'
\* handler, if registered, resets the manager.
Disconnect(b) ==
  /\ b \in connected
  /\ Cardinality(Disconnected) < MaxDisconnects
  /\ connected' = connected \ {b}
  /\ pages' = [i \in 1..Len(pages) |->
                 IF pages[i].browser = b THEN [pages[i] EXCEPT !.state = "closed"]
                 ELSE pages[i]]
  /\ IF b \in handled
     THEN /\ browser' = 0
          /\ isLaunching' = FALSE
          /\ launchPromise' = 0
     ELSE UNCHANGED <<browser, isLaunching, launchPromise>>
  /\ UNCHANGED <<extVars, strategyVars, procVars, storeVars, jobVars, launchState,
                 handled, page, ops>>

NextBrowser ==
  \/ \E o \in Ops : Initialize(o)
  \/ \E o \in Ops : Reinitialize(o)
  \/ \E l \in 1..MaxLaunches + 1 : LaunchSettles(l)
  \/ \E o \in Ops : LauncherResumes(o)
  \/ \E o \in Ops : WaiterResumes(o)
  \/ \E o \in Ops : NewPage(o)
  \/ \E o \in Ops : AssignPage(o)
  \/ \E o \in Ops : Navigate(o)
  \/ \E o \in Ops : Extract(o)
  \/ \E o \in Ops : Cleanup(o)
  \/ \E o \in Ops : CleanupDone(o)
  \/ \E b \in 1..MaxLaunches + 1 : Disconnect(b)

SpecBrowser == InitBrowser /\ [][NextBrowser]_vars

\* The callers of createPage alone: each gets its browser and its page, or
\* the error of the launch.
NextLaunch ==
  \/ \E o \in Ops : Initialize(o)
  \/ \E l \in 1..MaxLaunches + 1 : LaunchSettles(l)
  \/ \E o \in Ops : LauncherResumes(o)
  \/ \E o \in Ops : WaiterResumes(o)
  \/ \E o \in Ops : NewPage(o)
  \/ \E b \in 1..MaxLaunches + 1 : Disconnect(b)

SpecLaunch == InitBrowser /\ [][NextLaunch]_vars

(***************************************************************************)
(* The transport strategies: makeRequest of RapidApiStrategy and of        *)
(* MetaApiStrategy, one call at a time.                                    *)
(***************************************************************************)
MaxRetryAttempts == 3

\* MetaApiStrategy: this.maxRetries and this.baseDelay
maxRetries == 3

baseDelay == 1000

RECURSIVE Pow2(_)
Pow2(k) == IF k <= 0 THEN 1 ELSE 2 * Pow2(k - 1)

\* What axios rejects with: code is error.code, status the HTTP status,
\* metaCode is error.response.data.error.code (0 when the body has none).
Ok == [kind |-> "ok", code |-> "", status |-> 200, metaCode |-> 0]

Failures ==
  {[kind |-> "timeout", code |-> "ECONNABORTED", status |-> 0, metaCode |-> 0],
   [kind |-> "server", code |-> "ERR_BAD_RESPONSE", status |-> 500, metaCode |-> 0],
   [kind |-> "rateLimit", code |-> "ERR_BAD_REQUEST", status |-> 429, metaCode |-> 4],
   [kind |-> "notFound", code |-> "ERR_BAD_REQUEST", status |-> 404, metaCode |-> 0],
   [kind |-> "permission", code |-> "ERR_BAD_REQUEST", status |-> 403, metaCode |-> 10],
   [kind |-> "tokenExpired", code |-> "ERR_BAD_REQUEST", status |-> 400, metaCode |-> 190],
   [kind |-> "invalidParam", code |-> "ERR_BAD_REQUEST", status |-> 400, metaCode |-> 100]}

\* RapidApiStrategy.makeRequest, the catch block: rethrow on the last
\* attempt, otherwise wait and call again.
rapidApiOnError(error, attempt, retryAttempts) ==
  LET isLastAttempt == attempt >= retryAttempts
  IN  IF isLastAttempt THEN [retry |-> FALSE, delay |-> 0]
      ELSE [retry |-> TRUE, delay |-> Pow2(attempt - 1) * 1000]

\* MetaApiStrategy.handleError
handleError(error, attempt) ==
  LET errorCode == error.metaCode
      isRateLimited == errorCode = 4 \/ errorCode = 17
      isTokenExpired == errorCode = 190
      isInvalidParam == errorCode = 100
      isPermissionError == errorCode = 10
  IN  IF isTokenExpired \/ isInvalidParam \/ isPermissionError
      THEN [retry |-> FALSE, delay |-> 0]
      ELSE IF attempt < maxRetries /\ (isRateLimited \/ error.code = "ECONNABORTED")
           THEN [retry |-> TRUE, delay |-> baseDelay * Pow2(attempt - 1)]
           ELSE [retry |-> FALSE, delay |-> 0]

InitTransport ==
  /\ IdleExt
  /\ IdleProc
  /\ IdleJob
  /\ IdleBrowser
  /\ request \in [strategy : {"rapidapi", "meta", "web"},
                   retryAttempts : 1..MaxRetryAttempts,
                   attempt : {0},
                   pc : {"idle"}]
  /\ responses = <<>>
  /\ delays = <<>>
  /\ fetch = NoFetch
  /\ IdleFactory

\* makeRequest(options): the first attempt is sent.
MakeRequest ==
  /\ request.pc = "idle"
  /\ request.strategy \in {"rapidapi", "meta"}
  /\ request' = [request EXCEPT !.attempt = 1, !.pc = "request"]
  /\ UNCHANGED <<extVars, procVars, storeVars, jobVars, browserVars, factoryVars,
                 responses, delays, fetch>>

\* The attempt in flight resolves: response.data is returned.
RequestSucceeds ==
  /\ request.pc = "request"
  /\ responses' = Append(responses, Ok)
  /\ request' = [request EXCEPT !.pc = "returned"]
  /\ UNCHANGED <<extVars, procVars, storeVars, jobVars, browserVars, factoryVars, delays, fetch>>

\* The attempt in flight rejects: the strategy throws, or waits to retry.
RequestFails(error) ==
  /\ request.pc = "request"
  /\ responses' = Append(responses, error)
  /\ LET next == IF request.strategy = "rapidapi"
                 THEN rapidApiOnError(error, request.attempt, request.retryAttempts)
                 ELSE handleError(error, request.attempt)
     IN  IF next.retry
         THEN /\ delays' = Append(delays, next.delay)
              /\ request' = [request EXCEPT !.pc = "waiting"]
         ELSE /\ delays' = delays
              /\ request' = [request EXCEPT !.pc = "threw"]
  /\ UNCHANGED <<extVars, procVars, storeVars, jobVars, browserVars, factoryVars, fetch>>

\* The backoff timer fires: makeRequest(options, attempt + 1).
BackoffElapses ==
  /\ request.pc = "waiting"
  /\ request' = [request EXCEPT !.attempt = @ + 1, !.pc = "request"]
  /\ UNCHANGED <<extVars, procVars, storeVars, jobVars, browserVars, factoryVars,
                 responses, delays, fetch>>

\* What a strategy's getRecentPosts does with the outcome of its work:
\* InstagramRapidApiStrategy and the web strategies catch and return [],
\* InstagramMetaStrategy logs and rethrows; an error raised in the finally
\* block of a web strategy leaves the call whatever the try block returned.
strategyGetRecentPosts(strategy, outcome, finallyThrows) ==
  CASE strategy = "meta" -> outcome
    [] strategy = "rapidapi" ->
         IF outcome.threw THEN [threw |-> FALSE, posts |-> <<>>] ELSE outcome
    [] strategy = "web" ->
         IF finallyThrows THEN [threw |-> TRUE, posts |-> <<>>]
         ELSE IF outcome.threw THEN [threw |-> FALSE, posts |-> <<>>]
         ELSE outcome

\* BaseScraper.getRecentPosts without its catch.
scraperGetRecentPostsRethrows(outcome) ==
  [threw |-> outcome.threw, posts |-> outcome.posts]

\* BaseScraper.getRecentPosts: the posts of the strategy, [] on any error.
scraperGetRecentPosts(outcome) ==
  [threw |-> FALSE, posts |-> getRecentPosts(outcome)]

\* The fetch settles for the scraper, and processInfluencer, which called
\* it for an Instagram identity, builds its result.
Settle(strategy, condition, outcome, finallyThrows) ==
  LET ofStrategy == strategyGetRecentPosts(strategy, outcome, finallyThrows)
      ofScraper == scraperGetRecentPosts(ofStrategy)
  IN  fetch' = [state |-> IF ofScraper.threw THEN "threw" ELSE "returned",
                posts |-> ofScraper.posts,
                condition |-> condition,
                strategyThrew |-> ofStrategy.threw,
                result |-> processInfluencer(Roster[2], <<>>, ofStrategy)]

\* The media or posts a response carries.
ResponsePosts == {<<>>, <<FetchedA>>, <<FetchedB, FetchedA>>}

\* A transport strategy's getRecentPosts after makeRequest has returned.
TransportReturns ==
  /\ request.pc = "returned"
  /\ fetch.state = "none"
  /\ \E posts \in ResponsePosts :
       Settle(request.strategy, "ok", [threw |-> FALSE, posts |-> posts], FALSE)
  /\ UNCHANGED <<extVars, procVars, storeVars, jobVars, browserVars, factoryVars, request,
                 responses, delays>>

\* A transport strategy's getRecentPosts after makeRequest has thrown.
TransportFails ==
  /\ request.pc = "threw"
  /\ fetch.state = "none"
  /\ Settle(request.strategy, responses[Len(responses)].kind,
            [threw |-> TRUE, posts |-> <<>>], FALSE)
  /\ UNCHANGED <<extVars, procVars, storeVars, jobVars, browserVars, factoryVars, request,
                 responses, delays>>

\* What a web strategy meets on the profile page.
WebConditions == {"ok", "notFound", "private", "authRequired", "rateLimit", "timeout"}

\* A web strategy's getRecentPosts: posts, [] when none are found or the
\* account is private or needs a login, an error when the navigation fails.
WebFetch(condition, finallyThrows) ==
  /\ request.pc = "idle"
  /\ request.strategy = "web"
  /\ fetch.state = "none"
  /\ request' = [request EXCEPT !.pc = "done"]
  /\ \E posts \in ResponsePosts :
       /\ (condition # "ok") => posts = <<>>
       /\ Settle("web", condition,
                 [threw |-> condition = "timeout", posts |-> posts], finallyThrows)
  /\ UNCHANGED <<extVars, procVars, storeVars, jobVars, browserVars, factoryVars,
                 responses, delays>>

NextTransport ==
  \/ MakeRequest
  \/ RequestSucceeds
  \/ \E error \in Failures : RequestFails(error)
  \/ BackoffElapses
  \/ TransportReturns
  \/ TransportFails
  \/ \E condition \in WebConditions, finallyThrows \in BOOLEAN :
       WebFetch(condition, finallyThrows)

SpecTransport == InitTransport /\ [][NextTransport]_vars

(***************************************************************************)
(* ScraperStrategyFactory.create, and the scrapers built by the            *)
(* constructor of ScrapingJob.  Strings are sequences of characters.       *)
(***************************************************************************)
MaxFetches == 2

Upper ==
  <<"A", "B", "C", "D", "E", "F", "G", "H", "I", "J", "K", "L", "M",
    "N", "O", "P", "Q", "R", "S", "T", "U", "V", "W", "X", "Y", "Z">>

Lower ==
  <<"a", "b", "c", "d", "e", "f", "g", "h", "i", "j", "k", "l", "m",
    "n", "o", "p", "q", "r", "s", "t", "u", "v", "w", "x", "y", "z">>

LowerChar(c) ==
  IF \E i \in DOMAIN Upper : Upper[i] = c
  THEN Lower[CHOOSE i \in DOMAIN Upper : Upper[i] = c]
  ELSE c

\* String.prototype.toLowerCase
ToLowerCase(s) == [i \in 1..Len(s) |-> LowerChar(s[i])]

tiktok == <<"t", "i", "k", "t", "o", "k">>

instagram == <<"i", "n", "s", "t", "a", "g", "r", "a", "m">>

web == <<"w", "e", "b">>

meta == <<"m", "e", "t", "a">>

rapidapi == <<"r", "a", "p", "i", "d", "a", "p", "i">>

\* A factory that builds the web strategy for an Instagram method it does
\* not know.
createFallsBack(platform, method) ==
  LET platformLower == ToLowerCase(platform)
      methodLower == ToLowerCase(method)
  IN  IF platformLower = tiktok
      THEN IF methodLower = web THEN "TikTokWebStrategy" ELSE "throws"
      ELSE IF platformLower = instagram
           THEN IF methodLower = meta THEN "InstagramMetaStrategy"
                ELSE IF methodLower = rapidapi THEN "InstagramRapidApiStrategy"
                ELSE "InstagramWebStrategy"
           ELSE "throws"

\* ScraperStrategyFactory.create: the strategy built, or "throws".
create(platform, method) ==
  LET platformLower == ToLowerCase(platform)
      methodLower == ToLowerCase(method)
  IN  IF platformLower = tiktok
      THEN IF methodLower = web THEN "TikTokWebStrategy" ELSE "throws"
      ELSE IF platformLower = instagram
           THEN IF methodLower = web THEN "InstagramWebStrategy"
                ELSE IF methodLower = meta THEN "InstagramMetaStrategy"
                ELSE IF methodLower = rapidapi THEN "InstagramRapidApiStrategy"
                ELSE "throws"
           ELSE "throws"

\* The spellings tried for a platform and for a configured method.
Platforms ==
  {tiktok, <<"T", "i", "k", "T", "o", "k">>, instagram,
   <<"I", "N", "S", "T", "A", "G", "R", "A", "M">>, <<"i", "g">>,
   <<"y", "o", "u", "t", "u", "b", "e">>}

Methods ==
  {web, <<"W", "E", "B">>, <<" ", "w", "e", "b">>, meta, <<"M", "e", "t", "a">>,
   rapidapi, <<"R", "a", "p", "i", "d", "A", "P", "I">>, <<"a", "p", "i">>}

InitFactory ==
  /\ IdleExt
  /\ IdleProc
  /\ IdleJob
  /\ IdleBrowser
  /\ IdleTransport
  /\ created = NoCreated
  /\ construction \in [tiktokMethod : Methods, instagramMethod : Methods,
                        state : {"new"}, tiktokStrategy : {"none"},
                        instagramStrategy : {"none"}, fetches : {0}]

\* A call of ScraperStrategyFactory.create.
Create(platform, method) ==
  /\ created = NoCreated
  /\ created' = [platform |-> platform, method |-> method,
                 result |-> create(platform, method)]
  /\ UNCHANGED <<extVars, procVars, storeVars, jobVars, browserVars, transportVars, construction>>

\* new ScrapingJob(): new TikTokScraper(), then new InstagramScraper(); the
\* constructor throws where a factory call throws.
Construct ==
  /\ construction.state = "new"
  /\ LET tiktokStrategy == create(tiktok, construction.tiktokMethod)
         instagramStrategy == create(instagram, construction.instagramMethod)
     IN  construction' =
           IF tiktokStrategy = "throws"
           THEN [construction EXCEPT !.state = "failed"]
           ELSE IF instagramStrategy = "throws"
                THEN [construction EXCEPT !.state = "failed",
                                          !.tiktokStrategy = tiktokStrategy]
                ELSE [construction EXCEPT !.state = "constructed",
                                          !.tiktokStrategy = tiktokStrategy,
                                          !.instagramStrategy = instagramStrategy]
  /\ UNCHANGED <<extVars, procVars, storeVars, jobVars, browserVars, transportVars, created>>

\* run() of the constructed job starts a fetch on one of its scrapers.
StartFetch ==
  /\ construction.state = "constructed"
  /\ construction.fetches < MaxFetches
  /\ construction' = [construction EXCEPT !.fetches = @ + 1]
  /\ UNCHANGED <<extVars, procVars, storeVars, jobVars, browserVars, transportVars, created>>

NextFactory ==
  \/ \E platform \in Platforms, method \in Methods : Create(platform, method)
  \/ Construct
  \/ StartFetch

SpecFactory == InitFactory /\ [][NextFactory]_vars

(***************************************************************************)
(* The data processor on drawn inputs.                                     *)
(***************************************************************************)
MaxFresh == 3

MaxExisting == 2

MaxCount == 2

SeqsUpTo(S, n) == UNION {[1..k -> S] : k \in 0..n}

FreshUniverse ==
  {RawPost(Str(<<"A">>), DateStr(3), Num(100)),
   RawPost(Str(<<" ", "A">>), DateStr(1), Null),
   RawPost(Str(<<"B">>), DateStr(2), Num(151)),
   RawPost(Str(<<" ">>), DateStr(4), Str(<<"b", "a", "d">>)),
   RawPost(Undef, DateStr(5), Num(0 - 5)),
   [postLink |-> Str(<<"C">>), postedDate |-> DateStr(6)],
   RawPost(Str(<<"D">>), Str(<<"x">>), Num(7)),
   [postLink |-> Str(<<"E">>), views |-> Num(9)]}

ExistingUniverse ==
  {RawPost(Str(<<"A", " ">>), DateStr(1), Num(100)),
   RawPost(Str(<<"B">>), DateStr(2), Num(7))}

InitProc ==
  /\ IdleExt
  /\ IdleJob
  /\ IdleBrowser
  /\ IdleStrategy
  /\ input \in [existing : SeqsUpTo(ExistingUniverse, MaxExisting),
                 fresh : SeqsUpTo(FreshUniverse, MaxFresh),
                 count : 0..MaxCount]
  /\ applied = "none"
  /\ output = NoOutput

ApplyDeduplicate ==
  /\ applied = "none"
  /\ applied' = "deduplicatePosts"
  /\ LET r == deduplicatePosts(input.existing, input.fresh)
     IN  output' = [output EXCEPT !.toAppend = r.toAppend, !.toUpdate = r.toUpdate]
  /\ UNCHANGED <<extVars, strategyVars, input, storeVars, jobVars, browserVars>>

ApplyAverage ==
  /\ applied = "none"
  /\ applied' = "calculateAverageViews"
  /\ output' = [output EXCEPT !.average = calculateAverageViews(input.fresh)]
  /\ UNCHANGED <<extVars, strategyVars, input, storeVars, jobVars, browserVars>>

ApplyFilter ==
  /\ applied = "none"
  /\ applied' = "filterLast10Posts"
  /\ LET r == filterLast10Posts(input.fresh, input.count)
     IN  output' = [output EXCEPT !.recent = r.returned, !.postsAfter = r.posts]
  /\ UNCHANGED <<extVars, strategyVars, input, storeVars, jobVars, browserVars>>

NextProc == ApplyDeduplicate \/ ApplyAverage \/ ApplyFilter

SpecProc == InitProc /\ [][NextProc]_vars

(***************************************************************************)
(* Properties of the data processor.                                       *)
(***************************************************************************)
Count(s, x) == Cardinality({i \in 1..Len(s) : s[i] = x})

\* A post has a link when the field is present and not blank.
HasLink(post) ==
  /\ "postLink" \in DOMAIN post
  /\ post.postLink.t = "str"
  /\ Trim(post.postLink.s) # <<>>

\* Two posts carry the same link, surrounding whitespace aside.
SameLink(p, q) ==
  HasLink(p) /\ HasLink(q) /\ Trim(p.postLink.s) = Trim(q.postLink.s)

\* C1: deduplicatePosts splits the fresh posts that have a link: no post of
\* toAppend has the link of an existing post, every post of toUpdate has, each
\* fresh post with a link is in toAppend or toUpdate exactly as often as it is
\* in the fresh list, and a fresh post without a link is in neither.
C1_DedupPartition ==
  applied = "deduplicatePosts" =>
    /\ \A p \in SeqRange(output.toAppend) :
         \A e \in SeqRange(input.existing) : ~SameLink(p, e)
    /\ \A p \in SeqRange(output.toUpdate) :
         \E e \in SeqRange(input.existing) : SameLink(p, e)
    /\ \A p \in FreshUniverse :
         Count(output.toAppend, p) + Count(output.toUpdate, p)
           = IF HasLink(p) THEN Count(input.fresh, p) ELSE 0

C1_Witness ==
  /\ applied = "deduplicatePosts"
  /\ output.toAppend # <<>>
  /\ output.toUpdate # <<>>
  /\ Len(output.toAppend) + Len(output.toUpdate) < Len(input.fresh)

\* The views a post must carry to count: present, numeric, not negative.
CountedViews(post) ==
  /\ "views" \in DOMAIN post
  /\ \/ post.views.t = "num"
     \/ post.views.t = "str" /\ Trim(post.views.s) # <<>>
                            /\ ~StringToNumber(post.views.s).nan
  /\ ToNumber(post.views).n >= 0

\* C8: calculateAverageViews returns the rounded mean of the views of the
\* posts whose views are present, numeric and not negative, and null when
\* there is no such post.
C8_AverageOfCountedViews ==
  applied = "calculateAverageViews" =>
    LET counted == SelectSeq(input.fresh, CountedViews)
    IN  output.average =
          IF counted = <<>> THEN Null
          ELSE Num(RoundDiv(SumViews(counted), Len(counted)))

DateOf(post) == DateTime(Get(post, "postedDate"))

DistinctValidDates(posts) ==
  /\ \A i \in 1..Len(posts) : ~DateOf(posts[i]).nan
  /\ \A i, j \in 1..Len(posts) : i # j => DateOf(posts[i]).n # DateOf(posts[j]).n

\* C10: on posts with distinct valid dates filterLast10Posts returns the
\* count posts of latest date (all when there are fewer), latest first,
\* whatever the input order, and the input list is as it was.
C10_LatestPostsDescending ==
  (applied = "filterLast10Posts" /\ DistinctValidDates(input.fresh)) =>
    LET recent == output.recent
    IN  /\ Len(recent) = Min(input.count, Len(input.fresh))
        /\ \A i \in 1..Len(recent) : recent[i] \in SeqRange(input.fresh)
        /\ \A i \in 1..Len(recent) - 1 :
             DateOf(recent[i]).n > DateOf(recent[i + 1]).n
        /\ \A p \in SeqRange(input.fresh) :
             p \notin SeqRange(recent) =>
               \A q \in SeqRange(recent) : DateOf(q).n > DateOf(p).n
        /\ output.postsAfter = input.fresh

C10_Witness ==
  /\ applied = "filterLast10Posts"
  /\ DistinctValidDates(input.fresh)
  /\ Len(input.fresh) = 3
  /\ input.count = 2
  /\ DateOf(input.fresh[1]).n < DateOf(input.fresh[2]).n
  /\ DateOf(input.fresh[2]).n < DateOf(input.fresh[3]).n
  /\ Len(output.recent) = 2

ValidDate(post) == ~DateOf(post).nan

\* C11: filterLast10Posts places a post whose postedDate is missing or
\* unparseable after every post with a valid date, and returns such a post
\* only when fewer than count posts with a valid date exist.
C11_InvalidDatesOldest ==
  applied = "filterLast10Posts" =>
    LET recent == output.recent
        dated == SelectSeq(input.fresh, ValidDate)
    IN  /\ \A i, j \in 1..Len(recent) :
             (~ValidDate(recent[i]) /\ ValidDate(recent[j])) => j < i
        /\ (\E i \in 1..Len(recent) : ~ValidDate(recent[i])) =>
             Len(dated) < input.count

(***************************************************************************)
(* Properties of the run.                                                  *)
(***************************************************************************)
Identities == 1..Len(influencers)

SameIdentity(a, b) == a.username = b.username /\ a.platform = b.platform

\* The link a stored row reads back with.
RowLink(row) == ParseCell(row.postLink)

\* C2: the posts file holds at most one row per identity and post link.
C2_OneRowPerPost ==
  \A i, j \in 1..Len(postsFile) :
    (i # j /\ RowLink(postsFile[i]) # Blank) =>
      ~(/\ SameIdentity(postsFile[i], postsFile[j])
        /\ RowLink(postsFile[i]) = RowLink(postsFile[j]))

\* C3: while the batch is processed at most `concurrency` identities are in
\* flight, and none waits in the queue while fewer are in flight.
C3_BoundedConcurrency ==
  pc = "processing" =>
    /\ Cardinality(active) <= concurrency
    /\ queue # <<>> => Cardinality(active) = concurrency
    /\ \A i \in active : ~Settled(i)
    /\ \A k \in 1..Len(queue) : ~Settled(queue[k]) /\ queue[k] \notin active

C3_Witness ==
  /\ pc = "processing"
  /\ concurrency = 2
  /\ Len(influencers) = 3
  /\ Cardinality(active) = 2
  /\ \E i \in Identities : Settled(i)

RunFinished == pc = "idle" /\ runs > 0

FetchFailed(i) == fetched[i].how \in {"threw", "unsupported"}

\* C4: when the fetch of an identity raises an error or its platform is
\* unsupported, the finished run has a result for every identity, and the
\* failing one is in the summary's errors with zero posts and has no post
\* among those appended or updated.
C4_FailureIsolated ==
  RunFinished =>
    /\ \A i \in Identities : Settled(i)
    /\ summary.successCount + summary.failureCount = Len(influencers)
    /\ \A i \in Identities :
         (fetched[i].how = "returned" /\ fetched[i].posts # <<>>) => results[i].success
    /\ \A i \in Identities :
         FetchFailed(i) =>
           /\ ~results[i].success
           /\ results[i].postsCount = 0
           /\ \E k \in 1..Len(summary.errors) :
                SameIdentity(summary.errors[k], influencers[i])
           /\ \A p \in SeqRange(allPostsToAppend) \cup SeqRange(allPostsToUpdate) :
                ~SameIdentity(p, influencers[i])

C4_Witness ==
  /\ RunFinished
  /\ \E i, j \in Identities :
       /\ fetched[i].how = "threw"
       /\ results[j].success
       /\ i < j
  /\ \E i \in Identities : fetched[i].how = "unsupported"

\* C5: no writer call is made before processInfluencer has settled for every
\* identity of the batch.
C5_WritesAfterBatch ==
  writes # <<>> =>
    ((\A i \in Identities : Settled(i)) /\ active = {} /\ queue = <<>>)

C5_Witness ==
  /\ writes = <<"updateAverageViews", "appendPosts", "updateExistingPosts">>
  /\ Len(influencers) = 3
  /\ concurrency = 2

\* The summary of the batch in hand: its counts add up to the identities
\* attempted and it lists one error per failure.
SummaryOfBatch ==
  /\ summary.totalInfluencers = Len(influencers)
  /\ summary.successCount + summary.failureCount = Len(influencers)
  /\ summary.failureCount = Cardinality({i \in Identities : ~results[i].success})
  /\ Len(summary.errors) = summary.failureCount

FailedIdentities == {i \in Identities : Settled(i) /\ ~results[i].success}

\* C18: at the end of a run the high-failure alert is raised exactly when
\* more than half of the identities attempted have failed.
C18_AlertAboveHalf ==
  RunFinished =>
    (summary.highFailureRate <=>
       2 * Cardinality(FailedIdentities) > Len(influencers))

C18_Witness ==
  /\ RunFinished
  /\ Len(influencers) = 2
  /\ Cardinality(FailedIdentities) = 1
  /\ ~summary.highFailureRate

\* The post links a reader finds in the posts file.
StoredLinks(file) ==
  {readExistingPosts(file)[i].postLink : i \in 1..Len(file)} \ {Undef}

\* C20: every post that was stored when a run began is still stored, at
\* every step of the run and after it.
C20_StoredPostsKept ==
  \A i \in 1..Len(existingRead) :
    existingRead[i].postLink # Undef =>
      existingRead[i].postLink \in StoredLinks(postsFile)

ViewsOf(post) == ToNumber(Get(post, "views"))

\* The rounded mean of the views of the RecentCount latest of `posts`.
MeanOfRecentViews(posts) ==
  LET recent == filterLast10Posts(posts, RecentCount).returned
  IN  Num(RoundDiv(SumViews(recent), Len(recent)))

\* C9: for an identity whose fetched posts all carry valid views, the
\* average recorded in its result, and handed to updateAverageViews, is the
\* rounded mean of the views of its 10 most recent fetched posts.
C9_AverageOfFetchedViews ==
  \A i \in Identities :
    (/\ Settled(i)
     /\ results[i].success
     /\ \A p \in SeqRange(fetched[i].posts) : CountedViews(p)) =>
      results[i].averageViews = MeanOfRecentViews(fetched[i].posts)

(***************************************************************************)
(* Properties of the transport strategies.                                 *)
(***************************************************************************)
Transient(response) == response.kind \in {"timeout", "server", "rateLimit"}

NonTransient(response) ==
  response.kind \in {"notFound", "permission", "tokenExpired", "invalidParam"}

\* C12: in both strategies an attempt that fails with a non-transient error
\* (not found, permission, expired token, invalid parameter) is the last of
\* the call: no wait and no attempt follows it, so a call that meets such an
\* error at once is attempted exactly once.
C12_NonTransientNotRetried ==
  \A n \in 1..Len(responses) :
    NonTransient(responses[n]) =>
      /\ Len(responses) = n
      /\ Len(delays) < n
      /\ request.pc = "threw"

\* C13: in both strategies a call whose attempts all fail with transient
\* errors waits 1000 * 2^(n-1) ms after attempt n, ends by throwing after
\* exactly retryAttempts attempts, and a call that succeeds makes no
\* further attempt.
C13_TransientRetriedWithBackoff ==
  /\ (\A n \in 1..Len(responses) : Transient(responses[n])) =>
       /\ Len(responses) <= request.retryAttempts
       /\ \A n \in 1..Len(delays) : delays[n] = 1000 * Pow2(n - 1)
       /\ request.pc = "threw" => Len(responses) = request.retryAttempts
       /\ request.pc = "waiting" => Len(delays) = Len(responses)
  /\ \A n \in 1..Len(responses) :
       responses[n] = Ok => (n = Len(responses) /\ request.pc = "returned")

ExpectedFailure == fetch.condition \in {"notFound", "permission", "private", "rateLimit"}

ErrorKind(strategy, condition) ==
  CASE strategy = "web" /\ condition = "timeout" -> "timeout"
    [] strategy = "web" /\ condition = "private" -> "private_account"
    [] strategy = "web" /\ condition = "authRequired" -> "authentication_required"
    [] condition = "notFound" -> "user_not_found"
    [] strategy # "web" /\ condition = "permission" -> "private_account"
    [] condition = "rateLimit" -> "rate_limit"
    [] OTHER -> "unknown"

\* C19: when the strategy of an identity fails with a classified error, the
\* failure entry processInfluencer hands to the summary carries that kind.
C19_ErrorKindInSummary ==
  (fetch.state # "none" /\ ~fetch.result.success
     /\ ErrorKind(request.strategy, fetch.condition) # "unknown") =>
    fetch.result.error = ErrorKind(request.strategy, fetch.condition)

(***************************************************************************)
(* Properties of the strategy factory.                                     *)
(***************************************************************************)
\* The strategy of a supported (platform, method) pair, compared without
\* regard to case; "throws" for every other pair.
Supported(platform, method) ==
  LET pair == <<ToLowerCase(platform), ToLowerCase(method)>>
  IN  CASE pair = <<tiktok, web>> -> "TikTokWebStrategy"
        [] pair = <<instagram, web>> -> "InstagramWebStrategy"
        [] pair = <<instagram, meta>> -> "InstagramMetaStrategy"
        [] pair = <<instagram, rapidapi>> -> "InstagramRapidApiStrategy"
        [] OTHER -> "throws"

\* C16: create returns a strategy exactly for (tiktok, web), (instagram,
\* web), (instagram, meta) and (instagram, rapidapi), case aside, and throws
\* for every other pair; a job whose configured methods are not supported
\* fails in its constructor, before any fetch is started.
C16_FactoryFailsLoudly ==
  /\ created # NoCreated =>
       created.result = Supported(created.platform, created.method)
  /\ construction.state = "constructed" =>
       /\ Supported(tiktok, construction.tiktokMethod) # "throws"
       /\ Supported(instagram, construction.instagramMethod) # "throws"
  /\ construction.state = "failed" =>
       /\ construction.fetches = 0
       /\ \/ Supported(tiktok, construction.tiktokMethod) = "throws"
          \/ Supported(instagram, construction.instagramMethod) = "throws"
  /\ construction.fetches > 0 => construction.state = "constructed"

C16_Witness ==
  /\ created.platform = <<"I", "N", "S", "T", "A", "G", "R", "A", "M">>
  /\ created.method = <<"M", "e", "t", "a">>
  /\ created.result = "InstagramMetaStrategy"
  /\ construction.state = "failed"
  /\ construction.tiktokStrategy = "TikTokWebStrategy"

(***************************************************************************)
(* Properties of the browser and its pages.                                *)
(***************************************************************************)
InFlight(o) == ops[o].pc \notin {"idle", "done"}

\* C6: each fetch operation in flight works on one page of its own: the page
\* of the strategy is the one the operation opened, no page is driven by two
\* operations, no cleanup closes a page that another operation in flight
\* drives, and once every operation is done no page is left open.
C6_OwnPage ==
  /\ \A o \in Ops :
       (ops[o].pc \in {"navigate", "extract"} /\ page # 0) => page = ops[o].made
  /\ \A i \in 1..Len(pages) : Cardinality(pages[i].usedBy) <= 1
  /\ \A i \in 1..Len(pages) :
       pages[i].closedBy # 0 =>
         \A o \in pages[i].usedBy \ {pages[i].closedBy} : ~InFlight(o)
  /\ (\A o \in Ops : ops[o].pc = "done") =>
       \A i \in 1..Len(pages) : pages[i].state = "closed"

\* C15: when a fetch operation has returned, every page it opened is closed
\* (and with it its listeners are gone), whichever way the operation ended;
\* the pages are closed one by one, never by closing the browser.
C15_PagesClosedOnReturn ==
  \A o \in Ops :
    ops[o].pc = "done" =>
      \A i \in 1..Len(pages) : pages[i].madeBy = o => pages[i].state = "closed"

PendingLaunches(state) == {l \in 1..Len(state) : state[l] = "pending"}

\* C7: the browser is launched once while none is connected: at most one
\* launch is in flight, a caller that arrives during it waits on that launch
\* and gets its browser, and a further launch starts only when the one
\* before was rejected or its browser has disconnected.
C7_SingleLaunch ==
  /\ Cardinality(PendingLaunches(launchState)) <= 1
  /\ Cardinality(connected) <= 1
  /\ \A o \in Ops :
       (ops[o].pc = "awaitLaunch" /\ launchState[ops[o].launch] = "pending") =>
         /\ ops[o].launch = launchPromise
         /\ \E q \in Ops : ops[q].pc = "launching" /\ ops[q].launch = ops[o].launch
  /\ \A o \in Ops : (ops[o].waited /\ ops[o].got # 0) => ops[o].got = ops[o].launch
  /\ \A l \in 2..Len(launchState) :
       launchState[l - 1] = "rejected"
         \/ (launchState[l - 1] = "resolved" /\ (l - 1) \notin connected)

C7_Witness ==
  /\ Len(launchState) = 1
  /\ \E o, q \in Ops :
       /\ o # q
       /\ ops[o].waited
       /\ ops[o].got = 1
       /\ ops[q].got = 1
       /\ ops[q].launch = 1
       /\ ~ops[q].waited

\* The posts of identity i among `posts`.
PostsOf(i, posts) ==
  SelectSeq(posts, LAMBDA p : /\ p.username = influencers[i].username
                              /\ p.platform = influencers[i].platform)

\* C25: for an identity that failed in the first run, run() passed no
\* average and no post to the writer, and the identity's stored average and
\* stored posts are what they were before the run.
C25_FailedIdentityUntouched ==
  (RunFinished /\ runs = 1) =>
    \A i \in FailedIdentities :
      /\ PostsOf(i, averageViewsUpdates) = <<>>
      /\ PostsOf(i, allPostsToAppend) = <<>>
      /\ PostsOf(i, allPostsToUpdate) = <<>>
      /\ influencersFile[i] = InfluencersFileOf(Len(influencers))[i]
      /\ PostsOf(i, readExistingPosts(postsFile)) = PostsOf(i, existingRead)

(***************************************************************************)
(* The process of index.js: main(), executeJob() and the signal handlers.  *)
(* The identities of a run are in flight from the start of the run until   *)
(* their processInfluencer settles; the cron period is longer than a run.  *)
(***************************************************************************)
InitShutdown ==
  /\ IdleCore
  /\ IdleExcept("host")
  /\ process \in [runOnce : BOOLEAN, runOnStartup : BOOLEAN, main : {"start"},
                   handlers : {FALSE}, job : {FALSE}, browserUp : {FALSE},
                   state : {"running"}, exit : {"none"}]
  /\ inflight = <<>>

\* process.exit: the event loop stops, so what is in flight is cut.
Exit(p, by) ==
  /\ process' = [p EXCEPT !.state = "exited", !.exit = by]
  /\ inflight' = [i \in DOMAIN inflight |->
                    IF inflight[i] = "inflight" THEN "cut" ELSE inflight[i]]

\* main() awaits executeJob() in run-once mode and, with RUN_ON_STARTUP, in
\* cron mode; the scheduled callback calls it once main() has returned.
ExecuteJob(n) ==
  /\ process.state = "running"
  /\ ~process.job
  /\ \/ process.main = "start" /\ (process.runOnce \/ process.runOnStartup)
     \/ process.main = "ready"
  /\ process' = [process EXCEPT
                   !.job = TRUE,
                   !.main = IF process.main = "start" THEN "job" ELSE @]
  /\ inflight' = [i \in 1..n |-> "inflight"]
  /\ UNCHANGED <<coreVars, exceptHost>>

\* main() in cron mode without RUN_ON_STARTUP: schedule, then
\* setupGracefulShutdown().
MainSchedules ==
  /\ process.state = "running"
  /\ process.main = "start"
  /\ ~process.runOnce /\ ~process.runOnStartup
  /\ process' = [process EXCEPT !.main = "ready", !.handlers = TRUE]
  /\ UNCHANGED <<coreVars, exceptHost, inflight>>

\* A web strategy of the running job creates its page: the shared browser
\* is launched.
BrowserLaunches ==
  /\ process.state \in {"running"}
  /\ process.job
  /\ ~process.browserUp
  /\ process' = [process EXCEPT !.browserUp = TRUE]
  /\ UNCHANGED <<coreVars, exceptHost, inflight>>

\* processInfluencer of identity i settles, by completion or by timeout.
OperationSettles(i) ==
  /\ process.state \in {"running", "closing"}
  /\ i \in DOMAIN inflight
  /\ inflight[i] = "inflight"
  /\ inflight' = [inflight EXCEPT ![i] = "done"]
  /\ UNCHANGED <<coreVars, exceptHost, process>>

\* scrapingJob.run() returns to executeJob: process.exit(0) in run-once
\* mode; otherwise main(), if it was awaiting, goes on to
\* setupGracefulShutdown().
JobReturns ==
  /\ process.state = "running"
  /\ process.job
  /\ \A i \in DOMAIN inflight : inflight[i] = "done"
  /\ IF process.runOnce
     THEN Exit([process EXCEPT !.job = FALSE], "job")
     ELSE /\ process' = [process EXCEPT
                          !.job = FALSE,
                          !.main = "ready",
                          !.handlers = TRUE]
          /\ UNCHANGED inflight
  /\ UNCHANGED <<coreVars, exceptHost>>

\* SIGINT or SIGTERM arrives.  With the handlers registered, shutdown()
\* awaits closeBrowser() if the browser is running and then calls
\* process.exit(0); without them the signal ends the process at once.
Signal ==
  /\ process.state = "running"
  /\ IF ~process.handlers THEN Exit(process, "signal")
     ELSE IF process.browserUp
          THEN /\ process' = [process EXCEPT !.state = "closing"]
               /\ UNCHANGED inflight
          ELSE Exit(process, "shutdown")
  /\ UNCHANGED <<coreVars, exceptHost>>

\* browser.close() settles and shutdown() goes on to process.exit(0).
CloseBrowserSettles ==
  /\ process.state = "closing"
  /\ Exit([process EXCEPT !.browserUp = FALSE], "shutdown")
  /\ UNCHANGED <<coreVars, exceptHost>>

NextShutdown ==
  \/ \E n \in 1..MaxInfluencers : ExecuteJob(n)
  \/ MainSchedules
  \/ BrowserLaunches
  \/ \E i \in 1..MaxInfluencers : OperationSettles(i)
  \/ JobReturns
  \/ Signal
  \/ CloseBrowserSettles

SpecShutdown == InitShutdown /\ [][NextShutdown]_vars

\* C21: when a shutdown signal ends the process during a run, the shared
\* browser has been closed and no identity's operation was cut in flight.
C21_GracefulShutdown ==
  (process.state = "exited" /\ process.exit \in {"shutdown", "signal"}) =>
    /\ ~process.browserUp
    /\ \A i \in DOMAIN inflight : inflight[i] # "cut"

(***************************************************************************)
(* The life of one WebScraperStrategy: its caller calls initialize(),      *)
(* navigateTo() and cleanup() one after the other, in any order.           *)
(***************************************************************************)
MaxCalls == 4

InitLifecycle ==
  /\ IdleCore
  /\ IdleExcept("held")
  /\ held = [page |-> 0, pages |-> <<>>, calls |-> <<>>, connected |-> TRUE]

\* WebScraperStrategy.initialize: this.page = await createPage(), whatever
\* this.page held; an error of createPage is rethrown.
initialize(s, made) ==
  IF made
  THEN [s EXCEPT !.pages = Append(s.pages, "open"),
                 !.page = Len(s.pages) + 1,
                 !.connected = TRUE]
  ELSE s

\* WebScraperStrategy.cleanup: the page is closed if its browser is still
\* connected, and this.page is cleared.
cleanup(s) ==
  IF s.page = 0 THEN s
  ELSE [s EXCEPT !.pages = IF s.connected
                           THEN [s.pages EXCEPT ![s.page] = "closed"]
                           ELSE s.pages,
                 !.page = 0]

CallInitialize(made) ==
  /\ Len(held.calls) < MaxCalls
  /\ held' = [initialize(held, made) EXCEPT
                !.calls = Append(held.calls,
                                 IF made THEN "initialize" ELSE "initializeThrew")]
  /\ UNCHANGED <<coreVars, exceptHeld>>

\* WebScraperStrategy.navigateTo: initialize() only when there is no page.
CallNavigateTo ==
  /\ Len(held.calls) < MaxCalls
  /\ held' = [(IF held.page = 0 THEN initialize(held, TRUE) ELSE held) EXCEPT
                !.calls = Append(held.calls, "navigateTo")]
  /\ UNCHANGED <<coreVars, exceptHeld>>

CallCleanup ==
  /\ Len(held.calls) < MaxCalls
  /\ held' = [cleanup(held) EXCEPT !.calls = Append(held.calls, "cleanup")]
  /\ UNCHANGED <<coreVars, exceptHeld>>

\* The browser disconnects: its pages are gone.
BrowserDisconnects ==
  /\ held.connected
  /\ held' = [held EXCEPT
                !.connected = FALSE,
                !.pages = [i \in DOMAIN held.pages |->
                             IF held.pages[i] = "open" THEN "lost" ELSE held.pages[i]]]
  /\ UNCHANGED <<coreVars, exceptHeld>>

NextLifecycle ==
  \/ \E made \in BOOLEAN : CallInitialize(made)
  \/ CallNavigateTo
  \/ CallCleanup
  \/ BrowserDisconnects

SpecLifecycle == InitLifecycle /\ [][NextLifecycle]_vars

\* C22: after one or more initialize() calls followed by one cleanup(),
\* exactly one page was opened and none remains open.
C22_InitializeIdempotent ==
  LET n == Len(held.calls)
  IN  (/\ n >= 2
       /\ held.calls[n] = "cleanup"
       /\ \A i \in 1..n - 1 : held.calls[i] = "initialize"
       /\ held.connected) =>
        /\ Len(held.pages) = 1
        /\ \A i \in DOMAIN held.pages : held.pages[i] # "open"

(***************************************************************************)
(* handleError of the strategies that classify: the API strategies inherit *)
(* ScrapingStrategy.handleError, the web strategies override it.  An error *)
(* is [status, message]: status 0 stands for an error without a response.  *)
(***************************************************************************)
NavigationTimeout == "Navigation timeout of 30000 ms exceeded"

AxiosTimeout == "timeout of 30000ms exceeded"

ProxyFailed == "net::ERR_PROXY_CONNECTION_FAILED at https://www.instagram.com/u/"

NameNotResolved == "net::ERR_NAME_NOT_RESOLVED at https://www.instagram.com/u/"

HostNotFound == "getaddrinfo ENOTFOUND instagram-scraper.p.rapidapi.com"

RequestFailed == "Request failed"

\* message.includes(needle), for the needles handleError looks for.
Includes(message, needle) ==
  CASE needle = "timeout" -> message \in {NavigationTimeout, AxiosTimeout}
    [] needle = "Navigation timeout" -> message = NavigationTimeout
    [] needle = "net::ERR_PROXY" -> message = ProxyFailed
    [] needle = "ERR_NAME_NOT_RESOLVED" -> message = NameNotResolved
    [] OTHER -> FALSE

\* ScrapingStrategy.handleError
baseHandleError(error) ==
  IF error.status = 404 THEN "user_not_found"
  ELSE IF error.status = 403 THEN "private_account"
  ELSE IF error.status = 429 THEN "rate_limit"
  ELSE "unknown"

\* WebScraperStrategy.handleError
webHandleError(error) ==
  IF Includes(error.message, "timeout") \/ Includes(error.message, "Navigation timeout")
  THEN "timeout"
  ELSE IF Includes(error.message, "net::ERR_PROXY") THEN "proxy_error"
  ELSE IF Includes(error.message, "ERR_NAME_NOT_RESOLVED") THEN "network_error"
  ELSE baseHandleError(error)

Classifiers == {"InstagramRapidApiStrategy", "InstagramWebStrategy", "TikTokWebStrategy"}

\* The errors a strategy can catch: axios reports to the API strategy,
\* puppeteer and the page to the web strategies.
Errors(strategy) ==
  [status : {0, 403, 404, 429, 500},
   message : IF strategy = "InstagramRapidApiStrategy"
             THEN {AxiosTimeout, HostNotFound, RequestFailed}
             ELSE {NavigationTimeout, ProxyFailed, NameNotResolved, RequestFailed}]

InitClassify ==
  /\ IdleCore
  /\ IdleExcept("classified")
  /\ \E strategy \in Classifiers :
       \E e \in Errors(strategy) :
         classified = [strategy |-> strategy, error |-> e, kind |-> "none"]

\* The catch block of getRecentPosts: this.handleError(error, username).
Classify ==
  /\ classified.kind = "none"
  /\ classified' =
       [classified EXCEPT
          !.kind = IF classified.strategy = "InstagramRapidApiStrategy"
                   THEN baseHandleError(classified.error)
                   ELSE webHandleError(classified.error)]
  /\ UNCHANGED <<coreVars, exceptClassified>>

\* The next error is caught.
NextError ==
  /\ classified.kind # "none"
  /\ \E e \in Errors(classified.strategy) :
       classified' = [classified EXCEPT !.error = e, !.kind = "none"]
  /\ UNCHANGED <<coreVars, exceptClassified>>

NextClassify == Classify \/ NextError

SpecClassify == InitClassify /\ [][NextClassify]_vars

\* The one kind the taxonomy gives a backend signal: a status of a
\* response, or the failure an error without a response reports.
UniformKind(error) ==
  CASE error.status = 404 -> "user_not_found"
    [] error.status = 403 -> "private_account"
    [] error.status = 429 -> "rate_limit"
    [] error.status = 0 /\ error.message \in {NavigationTimeout, AxiosTimeout} -> "timeout"
    [] error.status = 0 /\ error.message = ProxyFailed -> "proxy_error"
    [] error.status = 0 /\ error.message \in {NameNotResolved, HostNotFound} ->
         "network_error"
    [] OTHER -> "unknown"

\* A response carries the message of its status; an error without a
\* response carries the message of the failure.
BackendSignal(error) ==
  (error.status # 0) <=> (error.message = RequestFailed)

\* C23: whichever strategy reports it, a backend signal is given the one
\* kind of the taxonomy.
C23_UniformClassification ==
  (classified.kind # "none" /\ BackendSignal(classified.error)) =>
    classified.kind = UniformKind(classified.error)

(***************************************************************************)
(* processInfluencer over the identities and the stored posts: which of    *)
(* the fetched posts it takes for posts of the identity already stored.    *)
(***************************************************************************)
Owners == [username : {"alice", "bob"}, platform : {"TikTok", "Instagram "}]

\* The stored posts as readExistingPosts returns them.
StoredPosts ==
  {[username |-> id.username, platform |-> id.platform,
    postLink |-> Str(link), postedDate |-> DateStr(1),
    comments |-> Num(1), likes |-> Num(2)] :
     id \in Owners, link \in {<<"A">>, <<"B">>}}

InitMatch ==
  /\ IdleCore
  /\ IdleExcept("matched")
  /\ matched \in [influencer : Owners,
                   existingPosts : SeqsUpTo(StoredPosts, MaxExisting),
                   result : {Pending}]

\* this.processInfluencer(influencer, existingPosts), the fetch returning
\* two posts.
ProcessInfluencer ==
  /\ matched.result = Pending
  /\ matched' =
       [matched EXCEPT
          !.result = processInfluencer(matched.influencer, matched.existingPosts,
                                       [threw |-> FALSE,
                                        posts |-> <<FetchedB, FetchedA>>])]
  /\ UNCHANGED <<coreVars, exceptMatched>>

\* The next identity of the batch, against the same stored posts.
NextInfluencer ==
  /\ matched.result # Pending
  /\ \E id \in Owners :
       matched' = [matched EXCEPT !.influencer = id, !.result = Pending]
  /\ UNCHANGED <<coreVars, exceptMatched>>

NextMatch == ProcessInfluencer \/ NextInfluencer

SpecMatch == InitMatch /\ [][NextMatch]_vars

\* A stored post of the identity: the same username and platform, the
\* platform compared as getScraperForPlatform normalises it.
OfIdentity(post, influencer) ==
  /\ post.username = influencer.username
  /\ LowerTrim(post.platform) = LowerTrim(influencer.platform)

\* C24: a fetched post is classified toUpdate only when a stored post of
\* the same identity has its postLink.
C24_UpdateOnlyOwnPosts ==
  matched.result # Pending =>
    \A i \in 1..Len(matched.result.toUpdate) :
      \E k \in 1..Len(matched.existingPosts) :
        /\ LinkKey(matched.existingPosts[k]) = LinkKey(matched.result.toUpdate[i])
        /\ OfIdentity(matched.existingPosts[k], matched.influencer)

(***************************************************************************)
(* InstagramWebStrategy.getRecentPosts, await by await.  this.page belongs *)
(* to the strategy object, which the scraper shares among the operations   *)
(* of a run: a second operation may create its page and clean up while     *)
(* this one is under way.  Pages are numbered; 0 stands for null.          *)
(***************************************************************************)
InitIgFetch ==
  /\ IdleCore
  /\ IdleExcept("igFetch")
  /\ igFetch \in [class : {"Normal", "Private", "AuthRequired"},
                   stage : {"start"}, thisPage : {0}, on : {0}, closed : {{}},
                   other : {"idle", "absent"}, trace : {<<>>}, posts : {0},
                   outcome : {"none"}]

\* The finally block: this.page.removeAllListeners('response') throws on a
\* null page and replaces the return; otherwise cleanup() closes the page.
Finally(f, posts) ==
  IF f.thisPage = 0
  THEN [f EXCEPT !.stage = "done", !.outcome = "threw", !.posts = 0]
  ELSE [f EXCEPT !.stage = "done", !.outcome = "returned", !.posts = posts,
                 !.closed = f.closed \cup {f.thisPage}, !.thisPage = 0]

\* if (!this.page) await this.initialize(), then the cookies and the
\* response listener.
FetchInitialize ==
  /\ igFetch.stage = "start"
  /\ igFetch' = [igFetch EXCEPT
                   !.stage = "initialized",
                   !.thisPage = IF igFetch.thisPage = 0 THEN 1 ELSE @,
                   !.trace = Append(@, "initialize")]
  /\ UNCHANGED <<coreVars, exceptIgFetch>>

\* navigateTo: initialize() when there is no page, then goto; a failed
\* navigation is caught by getRecentPosts, which returns [].
NavigateToProfile(ok) ==
  /\ igFetch.stage = "initialized"
  /\ LET f == [igFetch EXCEPT !.thisPage = IF igFetch.thisPage = 0 THEN 3 ELSE @,
                                !.trace = Append(@, "navigate")]
     IN  igFetch' = IF ok /\ f.thisPage \notin f.closed
                    THEN [f EXCEPT !.stage = "navigated"]
                    ELSE Finally(f, 0)
  /\ UNCHANGED <<coreVars, exceptIgFetch>>

\* checkIfPrivateAccount and checkAuthenticationRequired call
\* this.page.evaluate: on a null page the TypeError is caught there and the
\* answer is false.
CallCheck(stage, awaiting, skipped) ==
  /\ igFetch.stage = stage
  /\ igFetch' = IF igFetch.thisPage = 0
                 THEN [igFetch EXCEPT !.stage = skipped]
                 ELSE [igFetch EXCEPT !.stage = awaiting, !.on = igFetch.thisPage]
  /\ UNCHANGED <<coreVars, exceptIgFetch>>

\* The evaluation settles: rejected on a closed page (the answer is false),
\* otherwise the page's class is seen; a true answer returns [].
ResumeCheck(awaiting, class, passed) ==
  /\ igFetch.stage = awaiting
  /\ LET seen == igFetch.on \notin igFetch.closed /\ igFetch.class = class
         f == [igFetch EXCEPT !.trace = IF igFetch.on \notin igFetch.closed
                                        THEN Append(@, "classify" \o class) ELSE @]
     IN  igFetch' = IF seen THEN Finally(f, 0) ELSE [f EXCEPT !.stage = passed]
  /\ UNCHANGED <<coreVars, exceptIgFetch>>

\* waitForPosts, extractPosts and the enrichment: each works on this.page
\* and ends in the catch block when the page is gone.
Stage(stage, name, next, found) ==
  /\ igFetch.stage = stage
  /\ LET f == [igFetch EXCEPT !.trace = Append(@, name)]
     IN  igFetch' =
           IF igFetch.thisPage = 0 \/ igFetch.thisPage \in igFetch.closed
           THEN Finally(f, 0)
           ELSE IF ~found THEN Finally(f, igFetch.posts)
           ELSE IF next = "done" THEN Finally(f, igFetch.posts)
           ELSE [f EXCEPT !.stage = next,
                          !.posts = IF name = "extract" THEN 1 ELSE @]
  /\ UNCHANGED <<coreVars, exceptIgFetch>>

\* The other operation's initialize(): this.page is its new page.
OtherInitialize ==
  /\ igFetch.other = "idle"
  /\ igFetch.stage \notin {"done"}
  /\ igFetch' = [igFetch EXCEPT !.other = "initialized", !.thisPage = 2]
  /\ UNCHANGED <<coreVars, exceptIgFetch>>

\* The other operation's cleanup(): the page this.page names is closed and
\* this.page is null.
OtherCleanup ==
  /\ igFetch.other = "initialized"
  /\ igFetch.stage \notin {"done"}
  /\ igFetch' = [igFetch EXCEPT
                   !.other = "done",
                   !.closed = IF igFetch.thisPage = 0 THEN @
                              ELSE @ \cup {igFetch.thisPage},
                   !.thisPage = 0]
  /\ UNCHANGED <<coreVars, exceptIgFetch>>

NextIgFetch ==
  \/ FetchInitialize
  \/ \E ok \in BOOLEAN : NavigateToProfile(ok)
  \/ CallCheck("navigated", "awaitPrivate", "notPrivate")
  \/ ResumeCheck("awaitPrivate", "Private", "notPrivate")
  \/ CallCheck("notPrivate", "awaitAuth", "noAuth")
  \/ ResumeCheck("awaitAuth", "AuthRequired", "noAuth")
  \/ \E found \in BOOLEAN : Stage("noAuth", "locate", "located", found)
  \/ \E found \in BOOLEAN : Stage("located", "extract", "extracted", found)
  \/ Stage("extracted", "enrich", "done", TRUE)
  \/ OtherInitialize
  \/ OtherCleanup

SpecIgFetch == InitIgFetch /\ [][NextIgFetch]_vars

Performed(name) == \E i \in DOMAIN igFetch.trace : igFetch.trace[i] = name

\* C26: a fetch whose page was classified Private or AuthRequired returns
\* the empty list as a normal return, having located, extracted and
\* enriched nothing.
C26_ClassifiedReturnsEmpty ==
  (/\ igFetch.stage = "done"
   /\ \/ Performed("classifyPrivate") /\ igFetch.class = "Private"
      \/ Performed("classifyAuthRequired") /\ igFetch.class = "AuthRequired") =>
    /\ igFetch.outcome = "returned"
    /\ igFetch.posts = 0
    /\ ~Performed("locate") /\ ~Performed("extract") /\ ~Performed("enrich")

(***************************************************************************)
(* scrollToLoadPosts (the TikTok and the Instagram strategy have the same  *)
(* loop).  The page answers each scroll as it likes: it may grow or not,   *)
(* show more posts or not, and an evaluation may fail.  heights are the    *)
(* scroll heights read after each scroll.                                  *)
(***************************************************************************)
MaxTarget == 2

maxScrollAttempts == 5

InitScroll ==
  /\ IdleCore
  /\ IdleExcept("scroll")
  /\ scroll \in [targetCount : 0..MaxTarget, count : 0..1, height : 0..1,
                  previousHeight : {0}, scrollAttempts : {0}, currentCount : {0},
                  heights : {<<>>}, pc : {"loop"}]

\* The loop's condition always lets the loop go on.
ContinueScrollingForever(scrollAttempts) == scrollAttempts >= 0

\* while (scrollAttempts < maxScrollAttempts)
ContinueScrolling(scrollAttempts) == scrollAttempts < maxScrollAttempts

\* The head of an iteration: the loop's condition, the count of post
\* elements, and the break when it has reached the target.
CountPosts(fails) ==
  /\ scroll.pc = "loop"
  /\ scroll' =
       IF ~ContinueScrolling(scroll.scrollAttempts)
       THEN [scroll EXCEPT !.pc = "done"]
       ELSE IF fails THEN [scroll EXCEPT !.pc = "done"]
       ELSE IF scroll.count >= scroll.targetCount
            THEN [scroll EXCEPT !.currentCount = scroll.count, !.pc = "done"]
            ELSE [scroll EXCEPT !.currentCount = scroll.count, !.pc = "scroll"]
  /\ UNCHANGED <<coreVars, exceptScroll>>

\* The rest of the iteration: scroll to the bottom, wait, read the new
\* height, break when it is the previous one.
ScrollDown(grows, more, fails) ==
  /\ scroll.pc = "scroll"
  /\ LET newHeight == scroll.height + grows
         s == [scroll EXCEPT !.height = newHeight,
                             !.count = @ + more,
                             !.heights = Append(@, newHeight)]
     IN  scroll' =
           IF fails THEN [s EXCEPT !.pc = "done"]
           ELSE IF newHeight = scroll.previousHeight THEN [s EXCEPT !.pc = "done"]
           ELSE [s EXCEPT !.previousHeight = newHeight,
                          !.scrollAttempts = @ + 1,
                          !.pc = "loop"]
  /\ UNCHANGED <<coreVars, exceptScroll>>

NextScroll ==
  \/ \E fails \in BOOLEAN : CountPosts(fails)
  \/ \E grows \in 0..1, more \in 0..1, fails \in BOOLEAN : ScrollDown(grows, more, fails)

SpecScroll == InitScroll /\ [][NextScroll]_vars /\ WF_vars(NextScroll)

\* What holds at every step of the loop: no more scroll steps than the cap,
\* no scroll step once the count has reached the target, none after a
\* height that repeats the previous one.
ScrollBounded ==
  /\ Len(scroll.heights) <= maxScrollAttempts
  /\ scroll.pc = "scroll" => scroll.currentCount < scroll.targetCount
  /\ \A k \in 2..Len(scroll.heights) :
       scroll.heights[k] = scroll.heights[k - 1] =>
         k = Len(scroll.heights) /\ scroll.pc = "done"

\* C27: scrollToLoadPosts terminates on every page, after at most 5 scroll
\* steps, and earlier once the count reaches the target or the height
\* repeats.
C27_ScrollTerminates == []ScrollBounded /\ <>(scroll.pc = "done")

C27_Witness ==
  /\ scroll.pc = "done"
  /\ Len(scroll.heights) = maxScrollAttempts
  /\ \A k \in 2..Len(scroll.heights) : scroll.heights[k] > scroll.heights[k - 1]
  /\ scroll.count < scroll.targetCount

(***************************************************************************)
(* InstagramWebStrategy.enrichPostStatsViaModal: the loop over the posts   *)
(* to enrich.  view is what the page shows: the profile grid, the overlay  *)
(* of a post over the grid, or the page of a post.                         *)
(***************************************************************************)
MaxEnrichPosts == 2

MaxConfigured == 2

defaultMaxPosts == 15

GridPost ==
  [postLink |-> "https://www.instagram.com/p/P/", postedDate |-> DateStr(1),
   comments |-> Num(3), likes |-> Num(5)]

ReelPost ==
  [postLink |-> "https://www.instagram.com/reel/R/", postedDate |-> DateStr(2),
   share |-> Num(2)]

OddPost == [postLink |-> "instagram.com/tv/T", postedDate |-> DateStr(3), likes |-> Num(1)]

\* new URL(postLink).pathname, or the /p/ or /reel/ part the pattern finds:
\* null for a link that has neither.
HasPath(post) == post.postLink # OddPost.postLink

\* parseInt(process.env.INSTAGRAM_MAX_MODAL_ENRICHMENT) || 15; 0 stands for
\* a variable that is unset, not a number, or 0.
maxPostsToEnrich(configured) == IF configured = 0 THEN defaultMaxPosts ELSE configured

\* The post pushed when an item is skipped or its enrichment throws.
WithDefaults(post) ==
  [f \in DOMAIN post \cup {"comments", "likes"} |->
     CASE f = "comments" ->
            IF Get(post, "comments") # Undef THEN post.comments
            ELSE IF Get(post, "share") # Undef THEN post.share ELSE Num(0)
       [] f = "likes" -> Or(Get(post, "likes"), Num(0))
       [] OTHER -> post[f]]

\* The post pushed after the overlay was read: stats holds the date and the
\* numbers extracted, 0 where none was found.
WithStats(post, stats) ==
  [f \in DOMAIN post \cup {"comments", "likes", "postedDate"} |->
     CASE f = "comments" -> Or(Num(stats.comments), WithDefaults(post).comments)
       [] f = "likes" -> Or(Num(stats.likes), Or(Get(post, "likes"), Num(0)))
       [] f = "postedDate" -> Or(stats.date, Or(Get(post, "postedDate"), Now))
       [] OTHER -> post[f]]

InitEnrich ==
  /\ IdleCore
  /\ IdleExcept("enrich")
  /\ enrich \in [posts : SeqsUpTo({GridPost, ReelPost, OddPost}, MaxEnrichPosts) \ {<<>>},
                  configured : 0..MaxConfigured,
                  i : {1}, pc : {"open"}, view : {"grid"}, how : {"none"},
                  enriched : {<<>>}, openedFrom : {<<>>}, threw : {{}}]

postsToEnrich(e) ==
  SubSeq(e.posts, 1, Min(maxPostsToEnrich(e.configured), Len(e.posts)))

\* The catch block of an item drops the item.
onItemErrorDrops(e) == [e EXCEPT !.i = @ + 1, !.pc = "open", !.threw = @ \cup {e.i}]

\* The catch block of an item: Escape is pressed, which closes an overlay,
\* and the post is pushed with its own values.
onItemError(e) ==
  [e EXCEPT !.enriched = Append(@, WithDefaults(e.posts[e.i])),
            !.threw = @ \cup {e.i},
            !.view = IF e.view = "overlay" THEN "grid" ELSE @,
            !.i = @ + 1,
            !.pc = "open"]

\* The head of an iteration: a post without a path is pushed as it is; the
\* others are opened by a click on their link in the grid, or, when no
\* click finds the link, by navigation to the post, which may fail.
OpenPost(how) ==
  /\ enrich.pc = "open"
  /\ enrich.i <= Len(postsToEnrich(enrich))
  /\ LET post == enrich.posts[enrich.i]
     IN  IF ~HasPath(post)
         THEN /\ how = "skip"
              /\ enrich' = [enrich EXCEPT !.enriched = Append(@, WithDefaults(post)),
                                           !.i = @ + 1]
         ELSE /\ how \in {"click", "goto", "gotoFails"}
              /\ how = "click" => enrich.view = "grid"
              /\ LET e == [enrich EXCEPT !.openedFrom = Append(@, enrich.view),
                                          !.how = how]
                 IN  enrich' =
                       CASE how = "click" -> [e EXCEPT !.view = "overlay", !.pc = "opened"]
                         [] how = "goto" -> [e EXCEPT !.view = "post", !.pc = "opened"]
                         [] OTHER -> onItemError(e)
  /\ UNCHANGED <<coreVars, exceptEnrich>>

\* The rest of the iteration: the stats are read, the overlay is closed by
\* Escape, or by the Close button when the key press throws, or by going
\* back when that throws too, and the enriched post is pushed.
ReadAndClose(stats, close) ==
  /\ enrich.pc = "opened"
  /\ LET post == enrich.posts[enrich.i]
         closed ==
           CASE close = "escape" -> IF enrich.view = "overlay" THEN "grid" ELSE enrich.view
             [] close = "button" -> "grid"
             [] OTHER -> "grid"
     IN  /\ close = "button" => enrich.view = "overlay"
         /\ enrich' =
              IF close = "throws" THEN onItemError(enrich)
              ELSE [enrich EXCEPT !.enriched = Append(@, WithStats(post, stats)),
                                  !.view = closed,
                                  !.i = @ + 1,
                                  !.pc = "open"]
  /\ UNCHANGED <<coreVars, exceptEnrich>>

\* After the loop: the posts beyond the cap are pushed as they are.
ReturnEnriched ==
  /\ enrich.pc = "open"
  /\ enrich.i > Len(postsToEnrich(enrich))
  /\ enrich' =
       [enrich EXCEPT
          !.enriched = @ \o SubSeq(enrich.posts, Len(postsToEnrich(enrich)) + 1,
                                    Len(enrich.posts)),
          !.pc = "done"]
  /\ UNCHANGED <<coreVars, exceptEnrich>>

StatsRead == [comments : {0, 7}, likes : {0, 9}, date : {Undef, DateStr(4)}]

NextEnrich ==
  \/ \E how \in {"skip", "click", "goto", "gotoFails"} : OpenPost(how)
  \/ \E stats \in StatsRead, close \in {"escape", "button", "back", "throws"} :
       ReadAndClose(stats, close)
  \/ ReturnEnriched

SpecEnrich == InitEnrich /\ [][NextEnrich]_vars

\* Every property the post had before is there with the same value.
KeepsValues(after, before) ==
  \A f \in DOMAIN before : f \in DOMAIN after /\ after[f] = before[f]

\* C28: the function returns one post per input post, in order and with
\* the same postLink; an item that threw has its own values; at most the
\* cap of posts were opened and the posts beyond the cap are unchanged; an
\* item that throws does not stop the loop.
C28_EnrichmentIsolatesFailures ==
  LET cap == maxPostsToEnrich(enrich.configured)
  IN  /\ Len(enrich.openedFrom) <= cap
      /\ enrich.pc \in {"open", "opened"} =>
           Len(enrich.enriched) = enrich.i - 1
      /\ enrich.pc = "done" =>
           /\ Len(enrich.enriched) = Len(enrich.posts)
           /\ \A k \in 1..Len(enrich.posts) :
                /\ enrich.enriched[k].postLink = enrich.posts[k].postLink
                /\ k \in enrich.threw => KeepsValues(enrich.enriched[k], enrich.posts[k])
                /\ k > cap => enrich.enriched[k] = enrich.posts[k]

C28_Witness ==
  /\ enrich.pc = "done"
  /\ Len(enrich.posts) = 2
  /\ enrich.threw = {1}
  /\ Len(enrich.openedFrom) = 2
  /\ enrich.enriched[2] # WithDefaults(enrich.posts[2])

\* C29: whenever a post is opened, the page shows the profile grid.
C29_GridRestoredBeforeNext ==
  \A k \in DOMAIN enrich.openedFrom : enrich.openedFrom[k] = "grid"

(***************************************************************************)
(* ScrapingStrategy.extractNumber (BaseScraper.extractNumber has the same  *)
(* body).  A text is a sequence of one-character strings.  The texts drawn *)
(* hold no sign, no exponent and no "Infinity", so parseFloat reads digits *)
(* and one decimal point only.  Products are exact: for the texts drawn    *)
(* the double product rounds to the same integer.                          *)
(***************************************************************************)
MaxText == 6

RECURSIVE Pow10(_)
Pow10(n) == IF n = 0 THEN 1 ELSE 10 * Pow10(n - 1)

\* The number of digits s starts with.
RECURSIVE LeadingDigits(_)
LeadingDigits(s) ==
  IF s = <<>> \/ ~IsDigit(Head(s)) THEN 0 ELSE 1 + LeadingDigits(Tail(s))

toLowerCase(s) ==
  [k \in DOMAIN s |-> CASE s[k] = "K" -> "k"
                        [] s[k] = "M" -> "m"
                        [] s[k] = "B" -> "b"
                        [] OTHER -> s[k]]

trim(s) ==
  LET inked == {k \in DOMAIN s : s[k] # " "}
  IN  IF inked = {} THEN <<>>
      ELSE SubSeq(s, CHOOSE k \in inked : \A l \in inked : k <= l,
                     CHOOSE k \in inked : \A l \in inked : k >= l)

endsWith(s, c) == s # <<>> /\ s[Len(s)] = c

\* s.replace(/,/g, '')
replaceCommas(s) == SelectSeq(s, LAMBDA c : c # ",")

\* parseFloat: the longest prefix that is a decimal literal, after leading
\* white space; NaN when there is none.
parseFloat(s) ==
  LET inked == {k \in DOMAIN s : s[k] # " "}
      t == IF inked = {} THEN <<>>
           ELSE SubSeq(s, CHOOSE k \in inked : \A l \in inked : k <= l, Len(s))
      whole == LeadingDigits(t)
      rest == SubSeq(t, whole + 1, Len(t))
      fraction == IF rest # <<>> /\ Head(rest) = "."
                  THEN LeadingDigits(Tail(rest)) ELSE 0
  IN  IF whole = 0 /\ fraction = 0 THEN NotANumber
      ELSE Normal(DigitsToNumber(SubSeq(t, 1, whole)
                              \o SubSeq(t, whole + 2, whole + 1 + fraction)),
                  0 - fraction)

\* x * 10^k
Times(x, k) == IF x.nan THEN NotANumber ELSE Normal(x.mant, x.exp + k)

\* Math.round: to the nearest integer, a half upwards; NaN stays NaN.
MathRound(x) ==
  IF x.nan THEN NotANumber
  ELSE IF x.exp >= 0 THEN x
  ELSE Normal((2 * x.mant + Pow10(0 - x.exp)) \div (2 * Pow10(0 - x.exp)), 0)

isNaN(x) == x.nan

extractNumber(value) ==
  IF value.type = "number" THEN value.number
  ELSE IF value.type = "string"
  THEN LET lowerValue == trim(toLowerCase(value.text))
       IN  IF endsWith(lowerValue, "k")
           THEN MathRound(Times(parseFloat(lowerValue), 3))
           ELSE IF endsWith(lowerValue, "m")
           THEN MathRound(Times(parseFloat(lowerValue), 6))
           ELSE IF endsWith(lowerValue, "b")
           THEN MathRound(Times(parseFloat(lowerValue), 9))
           ELSE LET parsed == parseFloat(replaceCommas(lowerValue))
                IN  IF isNaN(parsed) THEN Zero ELSE parsed
  ELSE Zero

\* The characters the texts are made of, and the two texts of the scenario.
Alphabet == {"5", ".", ",", "K", "m", "B", " ", "x"}

Scenarios == {<<"1", ".", "2", "K">>, <<"3", ".", "5", "M">>}

Texts ==
  Scenarios \cup UNION {[1..n -> Alphabet] : n \in 0..MaxText}

Values ==
  {[type |-> "string", text |-> s, number |-> Zero] : s \in Texts}
    \cup {[type |-> "number", text |-> <<>>, number |-> Normal(n, 0)] :
            n \in 0..MaxCount}
    \cup {NoValue}

InitExtract ==
  /\ IdleCore
  /\ IdleExcept("extracted")
  /\ \E value \in Values :
       extracted = [pc |-> "call", value |-> value, result |-> Zero]

ExtractNumber ==
  /\ extracted.pc = "call"
  /\ extracted' = [extracted EXCEPT !.pc = "returned",
                                    !.result = extractNumber(extracted.value)]
  /\ UNCHANGED <<coreVars, exceptExtracted>>

NextExtract == ExtractNumber

SpecExtract == InitExtract /\ [][NextExtract]_vars

\* What a count text stands for: its characters without the thousands
\* separators are a decimal, alone or followed by one of K, M and B.
Suffixes == {"k", "m", "b"}

CountBody(text) ==
  LET s == replaceCommas(trim(toLowerCase(text)))
  IN  IF s # <<>> /\ s[Len(s)] \in Suffixes
      THEN SubSeq(s, 1, Len(s) - 1) ELSE s

CountPower(text) ==
  LET s == trim(toLowerCase(text))
  IN  IF endsWith(s, "k") THEN 3
      ELSE IF endsWith(s, "m") THEN 6
      ELSE IF endsWith(s, "b") THEN 9
      ELSE 0

IsDecimal(s) ==
  /\ \E k \in DOMAIN s : IsDigit(s[k])
  /\ \A k \in DOMAIN s : IsDigit(s[k]) \/ s[k] = "."
  /\ Cardinality({k \in DOMAIN s : s[k] = "."}) <= 1

IsCountText(text) == IsDecimal(CountBody(text))

HoldsNoNumber(text) == \A k \in DOMAIN text : ~IsDigit(text[k])

CountOf(text) ==
  IF CountPower(text) = 0 THEN parseFloat(CountBody(text))
  ELSE MathRound(Times(parseFloat(CountBody(text)), CountPower(text)))

\* C30: extractNumber maps every raw count text to a number: a decimal
\* followed by K, M or B in any case yields the value times 10^3, 10^6 or
\* 10^9 rounded to an integer, thousands separators are ignored with and
\* without a suffix, and a text that holds no number yields 0.
C30_ExtractNumberNormalizes ==
  (extracted.pc = "returned" /\ extracted.value.type = "string") =>
    /\ ~isNaN(extracted.result)
    /\ IsCountText(extracted.value.text) =>
         extracted.result = CountOf(extracted.value.text)
    /\ HoldsNoNumber(extracted.value.text) => extracted.result = Zero

====
